---- MODULE Spec2Model ----
(***************************************************************************)
(* SMC Layer Protocol engine (smc_layer_masterpiece.py).                   *)
(*                                                                         *)
(* Conventions of the model                                                *)
(*   - Python lists are sequences; indices kept in values (swing indices,  *)
(*     base_end_idx, zone bounds) are the 0-based Python indices and are   *)
(*     dereferenced with At/PyAt.                                          *)
(*   - Python floats are exact rationals <<n, d>> in lowest terms, d > 0;  *)
(*     NaN is <<0, 0>> (every ordered comparison with it is false, as in   *)
(*     Python).  An optional index is None or <<index>>.  Candle prices    *)
(*     and volumes are drawn from integers, on which the float operations  *)
(*     of the code are exact.                                              *)
(*   - None, the empty list and the empty dict are all <<>>: the code      *)
(*     tells them apart in one place only, res.output in analyze, and the  *)
(*     dicts external adapters return here are never empty.                *)
(*   - A population standard deviation is kept as <<V, w>>, meaning        *)
(*     sqrt(V)/w, with V = w*sum(x^2) - sum(x)^2 over the window.          *)
(*   - Python dicts are records; an absent key is an absent field.         *)
(*   - Evidence strings are tuples <<tag, values...>> holding the values   *)
(*     the f-string renders.                                               *)
(***************************************************************************)
EXTENDS Integers, Sequences, FiniteSets, TLC

None == <<>>
NaN == <<0, 0>>

\* ------------------------------------------------------------------------
\* Arithmetic helpers
\* ------------------------------------------------------------------------
Abs(x) == IF x < 0 THEN -x ELSE x

RECURSIVE GCD(_, _)
GCD(a, b) == IF b = 0 THEN a ELSE GCD(b, a % b)

Q(n, d) ==
    IF d = 0 THEN NaN
    ELSE LET g == GCD(Abs(n), Abs(d))
             s == IF d < 0 THEN -1 ELSE 1
         IN  <<(s * n) \div g, (s * d) \div g>>

QInt(n) == <<n, 1>>
IsNaN(a) == a[2] = 0
QAdd(a, b) == IF IsNaN(a) \/ IsNaN(b) THEN NaN ELSE Q(a[1] * b[2] + b[1] * a[2], a[2] * b[2])
QSub(a, b) == IF IsNaN(a) \/ IsNaN(b) THEN NaN ELSE Q(a[1] * b[2] - b[1] * a[2], a[2] * b[2])
QMul(a, b) == IF IsNaN(a) \/ IsNaN(b) THEN NaN ELSE Q(a[1] * b[1], a[2] * b[2])
QLt(a, b) == ~IsNaN(a) /\ ~IsNaN(b) /\ a[1] * b[2] < b[1] * a[2]
QLe(a, b) == ~IsNaN(a) /\ ~IsNaN(b) /\ a[1] * b[2] <= b[1] * a[2]
QGt(a, b) == QLt(b, a)
QGe(a, b) == QLe(b, a)

\* int(x) of a finite float: truncation toward zero
Trunc(a) == IF a[1] >= 0 THEN a[1] \div a[2] ELSE -((-a[1]) \div a[2])

\* int(n * 0.35) ... int(n * 0.85) for a list length n.  The double product
\* falls one ulp short of the exact integer for the listed n below 400.
IntPct(n, pct) ==
    LET short == CASE pct = 35 -> {180, 340, 360}
                   [] pct = 70 -> {90, 170, 180, 330, 340, 350, 360}
                   [] OTHER    -> {}
    IN  (pct * n) \div 100 - (IF n \in short THEN 1 ELSE 0)

\* a list built element by element, as a tuple
List(f) == f \o <<>>

\* Python indexing
At(s, i) == s[i + 1]
InRange(s, i) == -Len(s) <= i /\ i < Len(s)
PyAt(s, i) == IF i < 0 THEN s[Len(s) + i + 1] ELSE s[i + 1]
Get(d, k, default) == IF k \in DOMAIN d THEN d[k] ELSE default
Truthy(x) == x # <<>>

\* s[a] + ... + s[b] for Python indices 0 <= a, b < len(s)
RECURSIVE SumRange(_, _, _)
SumRange(s, a, b) ==
    IF b < a THEN 0
    ELSE IF a = b THEN s[a + 1]
    ELSE LET m == (a + b) \div 2 IN SumRange(s, a, m) + SumRange(s, m + 1, b)

\* the running sums s[a], s[a] + s[a+1], ..., up to s[b] (1-based, a <= b)
RECURSIVE RunningSums(_, _, _)
RunningSums(s, a, b) ==
    IF a = b THEN <<s[a]>>
    ELSE LET m == (a + b) \div 2
             left == RunningSums(s, a, m)
             right == RunningSums(s, m + 1, b)
             carry == left[Len(left)]
         IN  left \o [i \in 1..Len(right) |-> right[i] + carry]

SetMin(S) == CHOOSE x \in S : \A y \in S : x <= y
SetMax(S) == CHOOSE x \in S : \A y \in S : x >= y
Max2(a, b) == IF a >= b THEN a ELSE b
Min2(a, b) == IF a <= b THEN a ELSE b

\* ascending list of the members of a set of integers
SortedSeq(S) ==
    List([r \in 1..Cardinality(S) |-> CHOOSE x \in S : Cardinality({y \in S : y < x}) = r - 1])

\* ------------------------------------------------------------------------
\* 3) Core quant building blocks
\* ------------------------------------------------------------------------
Ok(v) == [ok |-> TRUE, val |-> v]
Err(e) == [ok |-> FALSE, err |-> e]

\* a moving average that also averages the windows that have not filled
smaVals_partial(values, window) ==
    List([i \in 1..Len(values) |->
            IF i < window THEN Q(SumRange(values, 0, i - 1), i)
            ELSE Q(SumRange(values, i - window, i - 1), window)])

\* sma for window > 0
smaVals(values, window) ==
    List([i \in 1..Len(values) |->
            IF i < window THEN None
            ELSE Q(SumRange(values, i - window, i - 1), window)])

sma(values, window) ==
    IF window <= 0 THEN Err("ValueError") ELSE Ok(smaVals(values, window))

TrueRange(candles) ==
    List([i \in 1..Len(candles) |->
            LET cd == candles[i]
                prev_c == IF i = 1 THEN candles[1].c ELSE candles[i - 1].c
            IN  Max2(cd.h - cd.l, Max2(Abs(cd.h - prev_c), Abs(cd.l - prev_c)))])

atr(candles, window) == sma(TrueRange(candles), window)

\* statistics.pstdev of values[i+1-window .. i], as <<V, window>>
rolling_std(values, window) ==
    LET squares == List([i \in 1..Len(values) |-> values[i] * values[i]])
    IN  List([i \in 1..Len(values) |->
                IF i >= window
                THEN LET s == SumRange(values, i - window, i - 1)
                         ss == SumRange(squares, i - window, i - 1)
                     IN  <<window * ss - s * s, window>>
                ELSE None])

\* the non-None entries of a list, in order
Defined(xs) == SelectSeq(xs, LAMBDA x : x # None)

\* xs sorted ascending, rank r (0-based), under the strict order lt
RankedBy(xs, r, lt(_, _)) ==
    LET i == CHOOSE i \in 1..Len(xs) :
                 /\ Cardinality({j \in 1..Len(xs) : lt(xs[j], xs[i])}) <= r
                 /\ r < Cardinality({j \in 1..Len(xs) : ~lt(xs[i], xs[j])})
    IN  xs[i]

\* percentile of rationals, p = pn/pd
percentile(values, pn, pd) ==
    IF values = <<>> THEN NaN
    ELSE LET k == Q((Len(values) - 1) * pn, pd)
             f == k[1] \div k[2]
             c == IF k[2] = 1 THEN f ELSE f + 1
         IN  IF f = c THEN RankedBy(values, f, QLt)
             ELSE LET xf == RankedBy(values, f, QLt)
                      xc == RankedBy(values, c, QLt)
                  IN  QAdd(xf, QMul(QSub(xc, xf), QSub(k, QInt(f))))

\* percentile of standard deviations <<V, w>> (same w throughout): the
\* interpolated value ((q-p)*sqrt(A) + p*sqrt(B)) / (q*w) is kept as
\* <<A, B, p, q, w>>, with p/q = k - floor(k)
StdLt(a, b) == a[1] < b[1]
percentileStd(values, pn, pd) ==
    IF values = <<>> THEN NaN
    ELSE LET k == Q((Len(values) - 1) * pn, pd)
             f == k[1] \div k[2]
             c == IF k[2] = 1 THEN f ELSE f + 1
             xf == RankedBy(values, f, StdLt)
             xc == RankedBy(values, c, StdLt)
         IN  IF f = c THEN <<xf[1], xf[1], 0, 1, xf[2]>>
             ELSE <<xf[1], xc[1], k[1] - f * k[2], k[2], xf[2]>>

\* the same comparison with < in place of <=
StdLtInterp(x, t) ==
    LET X == x[1] * t[5] * t[5]
        A == t[1] * x[2] * x[2]
        B == t[2] * x[2] * x[2]
        p == t[3]
        q == t[4]
    IN  IF X >= B THEN FALSE
        ELSE IF X <= A THEN X < A \/ p > 0
        ELSE LET L == q * q * X - (q - p) * (q - p) * A - p * p * B
             IN  L < 0 \/ L * L < 4 * p * p * (q - p) * (q - p) * A * B

\* sqrt(V)/w <= ((q-p)*sqrt(A) + p*sqrt(B)) / (q*w'), decided exactly
StdLeInterp(x, t) ==
    LET X == x[1] * t[5] * t[5]
        A == t[1] * x[2] * x[2]
        B == t[2] * x[2] * x[2]
        p == t[3]
        q == t[4]
    IN  IF X <= A THEN TRUE
        ELSE IF X >= B THEN FALSE
        ELSE LET L == q * q * X - (q - p) * (q - p) * A - p * p * B
             IN  L <= 0 \/ L * L <= 4 * p * p * (q - p) * (q - p) * A * B

clamp(x, lo, hi) ==
    LET m == IF QLt(x, hi) THEN x ELSE hi      \* min(hi, x)
    IN  IF QGt(m, lo) THEN m ELSE lo           \* max(lo, m)

\* ------------------------------------------------------------------------
\* 4) Feature extraction
\* ------------------------------------------------------------------------
\* a swing detector that looks at the bars on the left only
find_swings_left(candles, left, right) ==
    LET n == Len(candles)
        idx == List([x \in 1..Max2(0, n - right - left) |-> left + x - 1])
        is_hi(i) == \A j \in (i - left)..i : At(candles, i).h >= At(candles, j).h
        is_lo(i) == \A j \in (i - left)..i : At(candles, i).l <= At(candles, j).l
    IN  [highs |-> SelectSeq(idx, is_hi), lows |-> SelectSeq(idx, is_lo)]

\* a swing detector that wants the bar strictly above (below) its neighbours
find_swings_strict(candles, left, right) ==
    LET n == Len(candles)
        idx == List([x \in 1..Max2(0, n - right - left) |-> left + x - 1])
        is_hi(i) == \A j \in ((i - left)..(i + right)) \ {i} : At(candles, i).h > At(candles, j).h
        is_lo(i) == \A j \in ((i - left)..(i + right)) \ {i} : At(candles, i).l < At(candles, j).l
    IN  [highs |-> SelectSeq(idx, is_hi), lows |-> SelectSeq(idx, is_lo)]

find_swings(candles, left, right) ==
    LET n == Len(candles)
        idx == List([x \in 1..Max2(0, n - right - left) |-> left + x - 1])   \* range(left, n - right)
        is_hi(i) == \A j \in (i - left)..(i + right) : At(candles, i).h >= At(candles, j).h
        is_lo(i) == \A j \in (i - left)..(i + right) : At(candles, i).l <= At(candles, j).l
    IN  [highs |-> SelectSeq(idx, is_hi), lows |-> SelectSeq(idx, is_lo)]

\* typical price (h + l + c) / 3
Typical(cd) == Q(cd.h + cd.l + cd.c, 3)

\* sum of tp*v, times 3, and sum of v over candles[a..b] (0-based, inclusive)
CumPV3(candles, a, b) ==
    SumRange([i \in 1..Len(candles) |->
                 (candles[i].h + candles[i].l + candles[i].c) * candles[i].v], a, b)

CumV(candles, a, b) == SumRange([i \in 1..Len(candles) |-> candles[i].v], a, b)

anchored_vwap(candles, anchor_idx) ==
    LET n == Len(candles)
        pv3 == List([i \in 1..n |-> (candles[i].h + candles[i].l + candles[i].c) * candles[i].v])
        vol == List([i \in 1..n |-> candles[i].v])
        \* cum_pv (times 3) and cum_v after the iteration at anchor_idx + k - 1
        cum_pv3 == IF anchor_idx < n THEN RunningSums(pv3, anchor_idx + 1, n) ELSE <<>>
        cum_v == IF anchor_idx < n THEN RunningSums(vol, anchor_idx + 1, n) ELSE <<>>
    IN  List([i \in 1..n |->
                IF i - 1 < anchor_idx THEN None
                ELSE IF cum_v[i - anchor_idx] > 0
                     THEN Q(cum_pv3[i - anchor_idx], 3 * cum_v[i - anchor_idx])
                     ELSE None])

\* int((tp - lo) / bin_size) is computed in doubles.  At an exact bin boundary
\* the double quotient can fall just below the integer, which puts the candle
\* one bin lower.  DoubleQuotShort lists where it does, as <<3*lo, 3*hi, 3*tp>>,
\* for prices 1..3 (3*tp in 3..9) and the bin counts 2, 3 and 60.
DoubleQuotShort(bins) ==
    CASE bins = 2 -> {<<3, 5, 4>>, <<5, 7, 6>>, <<7, 9, 8>>}
      [] bins = 3 -> {<<3, 6, 4>>, <<4, 7, 6>>, <<6, 9, 8>>}
      [] bins = 60 -> {<<3, 5, 4>>, <<3, 6, 4>>, <<3, 7, 4>>, <<3, 8, 4>>, <<3, 9, 4>>, <<3, 9, 8>>, <<4, 5, 5>>, <<4, 9, 8>>, <<5, 7, 6>>, <<5, 9, 6>>, <<5, 9, 8>>, <<6, 7, 7>>, <<6, 9, 8>>, <<7, 9, 8>>, <<8, 9, 9>>}
      [] OTHER -> {}

\* the bin index without the clamp to 0..bins-1
BinIndex_unclamped(bins, lo3, hi3, p3) == ((p3 - lo3) * bins) \div (hi3 - lo3)

BinIndex(bins, lo3, hi3, p3) ==
    LET exact == ((p3 - lo3) * bins) \div (hi3 - lo3)
        raw == IF <<lo3, hi3, p3>> \in DoubleQuotShort(bins) THEN exact - 1 ELSE exact
    IN  Max2(0, Min2(bins - 1, raw))

volume_nodes_proxy(candles, bins) ==
    IF candles = <<>> THEN <<>>
    ELSE LET n == Len(candles)
             p3(i) == candles[i].h + candles[i].l + candles[i].c
             lo3 == SetMin({p3(i) : i \in 1..n})
             hi3 == SetMax({p3(i) : i \in 1..n})
             idx == List([i \in 1..n |-> BinIndex(bins, lo3, hi3, p3(i))])
             iv == List([i \in 1..n |-> <<idx[i], candles[i].v>>])
             volIn(b) == LET sel == SelectSeq(iv, LAMBDA p : p[1] = b)
                         IN  SumRange(List([k \in 1..Len(sel) |-> sel[k][2]]), 0, Len(sel) - 1)
         IN  IF hi3 <= lo3
             THEN << <<Q(lo3, 3), Q(hi3, 3), CumV(candles, 0, n - 1)>> >>
             ELSE List([b \in 1..bins |->
                          << Q(lo3 * bins + (b - 1) * (hi3 - lo3), 3 * bins),
                             Q(lo3 * bins + b * (hi3 - lo3), 3 * bins),
                             volIn(b - 1) >>])

\* sorted(nodes, key=lambda x: x[2], reverse=True): stable, descending volume
SortByVolDesc(nodes) ==
    LET before(j, i) == nodes[j][3] > nodes[i][3] \/ (nodes[j][3] = nodes[i][3] /\ j < i)
        rank(i) == Cardinality({j \in 1..Len(nodes) : before(j, i)})
        ranks == List([i \in 1..Len(nodes) |-> rank(i)])
    IN  List([r \in 1..Len(nodes) |-> nodes[CHOOSE i \in 1..Len(nodes) : ranks[i] = r - 1]])

\* a selection that keeps one bucket fewer than asked for
top_hvn_short(nodes, k) == SubSeq(SortByVolDesc(nodes), 1, Min2(Max2(0, k - 1), Len(nodes)))

top_hvn(nodes, k) == SubSeq(SortByVolDesc(nodes), 1, Min2(k, Len(nodes)))

\* ------------------------------------------------------------------------
\* Strings that the code inspects character by character (startswith, split)
\* are sequences of one-character strings.
\* ------------------------------------------------------------------------
S_internal == <<"i", "n", "t", "e", "r", "n", "a", "l">>
S_structure == <<"s", "t", "r", "u", "c", "t", "u", "r", "e">>
S_volume == <<"v", "o", "l", "u", "m", "e">>
S_cost_basis == <<"c", "o", "s", "t", "_", "b", "a", "s", "i", "s">>
S_regime == <<"r", "e", "g", "i", "m", "e">>
S_accum_dist == <<"a", "c", "c", "u", "m", "_", "d", "i", "s", "t">>
S_verifier == <<"v", "e", "r", "i", "f", "i", "e", "r">>
Dot == <<".">>

StructureAgentName == S_internal \o Dot \o S_structure
VolumeAgentName == S_internal \o Dot \o S_volume
CostBasisAgentName == S_internal \o Dot \o S_cost_basis
RegimeAgentName == S_internal \o Dot \o S_regime
AccumDistAgentName == S_internal \o Dot \o S_accum_dist
VerifierAgentName == S_internal \o Dot \o S_verifier

\* dict update d[k] = v
Put(d, k, v) == [x \in (DOMAIN d) \cup {k} |-> IF x = k THEN v ELSE d[x]]
EmptyDict == <<>>

\* ------------------------------------------------------------------------
\* 5) Internal agents.  run(ctx) yields Ok(AgentResult) or Err(exception).
\* ------------------------------------------------------------------------
AgentResult(name, output, confidence, evidence) ==
    [name |-> name, output |-> output, confidence |-> confidence,
     evidence |-> evidence, warnings |-> <<>>]

\* first j in hi0+1 .. n-1 with closes[j] > level, for the first swing high
\* hi0 after li; None when there is none
Breakout(candles, swing_highs, li) ==
    LET hi_candidates == {hi \in {swing_highs[x] : x \in 1..Len(swing_highs)} : hi > li}
    IN  IF hi_candidates = {} THEN None
        ELSE LET hi0 == SetMin(hi_candidates)
                 level == At(candles, hi0).h
                 js == {j \in (hi0 + 1)..(Len(candles) - 1) : At(candles, j).c > level}
             IN  IF js = {} THEN None ELSE <<SetMin(js)>>

\* the breakout that comes first in time, whichever swing low it belongs to
EarliestBreakout(candles, swing_highs, swing_lows) ==
    LET X == {x \in 1..Len(swing_lows) : Breakout(candles, swing_highs, swing_lows[x]) # None}
    IN  IF X = {} THEN None
        ELSE <<SetMin({Breakout(candles, swing_highs, swing_lows[x])[1] : x \in X})>>

\* the breakout of the first swing low, in list order, that has one
FirstBreakout(candles, swing_highs, swing_lows) ==
    LET X == {x \in 1..Len(swing_lows) : Breakout(candles, swing_highs, swing_lows[x]) # None}
    IN  IF X = {} THEN None ELSE Breakout(candles, swing_highs, swing_lows[SetMin(X)])

StructureBaseEnd(candles, swings) ==
    LET found == IF swings.lows # <<>> /\ swings.highs # <<>>
                 THEN FirstBreakout(candles, swings.highs, swings.lows)
                 ELSE None
    IN  IF found = None THEN Max2(0, IntPct(Len(candles), 35)) ELSE found[1]

StructureAgent_run(ctx) ==
    LET swings == find_swings(ctx.candles, Get(ctx.params, "swing_left", 3),
                              Get(ctx.params, "swing_right", 3))
        base_end == StructureBaseEnd(ctx.candles, swings)
        out == [swings |-> swings, base_end_idx |-> base_end, base_start_idx |-> 0,
                impulse_start_idx |-> base_end, impulse_end_idx |-> Len(ctx.candles) - 1]
        evidence == << <<"swings", Len(swings.highs), Len(swings.lows)>>,
                       <<"base_end_idx", base_end>> >>
    IN  Ok(AgentResult(StructureAgentName, out, Q(65, 100), evidence))

VolumeAgent_run(ctx) ==
    LET nodes == volume_nodes_proxy(ctx.candles, Get(ctx.params, "vap_bins", 60))
        hvn == top_hvn(nodes, Get(ctx.params, "hvn_topk", 6))
        out == [vap_nodes |-> nodes, hvn |-> hvn]
        evidence == << <<"vap bins", Len(nodes)>>,
                       <<"hvn_top", SubSeq(hvn, 1, Min2(3, Len(hvn)))>> >>
    IN  Ok(AgentResult(VolumeAgentName, out, Q(7, 10), evidence))

CostBasisAnchors(candles, swing_lows) ==
    IF swing_lows # <<>>
    THEN SortedSeq({swing_lows[1], At(swing_lows, Len(swing_lows) \div 2),
                    swing_lows[Len(swing_lows)]})
    ELSE <<0, Len(candles) \div 2>>

CostBasisAgent_run(ctx) ==
    LET traced == Get(Get(ctx.traces, S_structure, EmptyDict), "swings", None)
        swings == IF ~Truthy(traced) THEN find_swings(ctx.candles, 3, 3) ELSE traced
        anchors == CostBasisAnchors(ctx.candles, swings.lows)
        avwaps == [a \in {anchors[x] : x \in 1..Len(anchors)} |-> anchored_vwap(ctx.candles, a)]
        out == [anchors |-> anchors, avwaps |-> avwaps]
        evidence == << <<"anchors", anchors>>, <<"avwap=typical_price*volume">> >>
    IN  Ok(AgentResult(CostBasisAgentName, out, Q(66, 100), evidence))

RegimeAgent_run(ctx) ==
    LET closes == List([i \in 1..Len(ctx.candles) |-> ctx.candles[i].c])
        rstd == rolling_std(closes, Get(ctx.params, "vol_window", 20))
        atrr == atr(ctx.candles, Get(ctx.params, "atr_window", 14))
    IN  IF ~atrr.ok THEN atrr
        ELSE LET atrv == atrr.val
                 std_vals == Defined(rstd)
                 atr_vals == Defined(atrv)
                 std_p30 == IF std_vals # <<>> THEN percentileStd(std_vals, 3, 10)
                            ELSE <<0, 0, 0, 1, 1>>
                 atr_p30 == IF atr_vals # <<>> THEN percentile(atr_vals, 3, 10) ELSE QInt(0)
                 compression ==
                     List([i \in 1..Len(closes) |->
                             IF rstd[i] = None \/ atrv[i] = None THEN FALSE
                             ELSE StdLeInterp(rstd[i], std_p30) /\ QLe(atrv[i], atr_p30)])
                 out == [compression_mask |-> compression, std_p30 |-> std_p30,
                         atr_p30 |-> atr_p30]
                 evidence == << <<"std_p30", std_p30>>, <<"atr_p30", atr_p30>> >>
             IN  Ok(AgentResult(RegimeAgentName, out, Q(6, 10), evidence))

AccumDistAgent_run(ctx) ==
    LET candles == ctx.candles
        ranges == List([i \in 1..Len(candles) |-> candles[i].h - candles[i].l])
        vols == List([i \in 1..Len(candles) |-> candles[i].v])
        r_smar == sma(ranges, Get(ctx.params, "range_window", 14))
        v_smar == sma(vols, Get(ctx.params, "vol_sma_window", 14))
    IN  IF ~r_smar.ok THEN r_smar
        ELSE IF ~v_smar.ok THEN v_smar
        ELSE LET r_sma == r_smar.val
                 v_sma == v_smar.val
                 narrow(i) == /\ r_sma[i] # None /\ v_sma[i] # None /\ i > 1
                              /\ QGt(QInt(vols[i]), v_sma[i])
                              /\ QLt(QInt(ranges[i]), r_sma[i])
                 dist_flags == List([i \in 1..Len(candles) |->
                                        narrow(i) /\ candles[i].c > candles[i - 1].c])
                 abs_flags == List([i \in 1..Len(candles) |->
                                       narrow(i) /\ candles[i].c < candles[i - 1].c])
                 out == [distribution_flags |-> dist_flags, absorption_flags |-> abs_flags]
                 evidence == << <<"dist: up close + high vol + narrow range">>,
                                <<"abs: down close + high vol + narrow range">> >>
             IN  Ok(AgentResult(AccumDistAgentName, out, Q(55, 100), evidence))

VerifierAgent_run(ctx) ==
    LET structure == Get(ctx.traces, S_structure, EmptyDict)
        volume == Get(ctx.traces, S_volume, EmptyDict)
        costb == Get(ctx.traces, S_cost_basis, EmptyDict)
        c1 == "base_end_idx" \in DOMAIN structure
        c2 == Truthy(Get(volume, "hvn", None))
        c3 == Truthy(Get(costb, "anchors", None))
        ok == (IF c1 THEN 1 ELSE 0) + (IF c2 THEN 1 ELSE 0) + (IF c3 THEN 1 ELSE 0)
        ev == (IF c1 THEN << <<"structure: base_end_idx present">> >> ELSE <<>>)
              \o (IF c2 THEN << <<"volume: hvn present">> >> ELSE <<>>)
              \o (IF c3 THEN << <<"cost_basis: anchors present">> >> ELSE <<>>)
    IN  Ok(AgentResult(VerifierAgentName, [checks_ok |-> ok, checks_need |-> 3], Q(ok, 3), ev))

\* ------------------------------------------------------------------------
\* 6) Layer resolver
\* ------------------------------------------------------------------------
segment_by_indices(candles, i0, i1) ==
    LET a == Max2(0, i0)
        b == Min2(Len(candles) - 1, i1)
    IN  IF b < a THEN <<>> ELSE SubSeq(candles, a + 1, b + 1)

weighted_centroid_price(candles) ==
    IF candles = <<>> THEN None
    ELSE LET den == CumV(candles, 0, Len(candles) - 1)
         IN  IF den > 0 THEN Q(CumPV3(candles, 0, Len(candles) - 1), 3 * den) ELSE None

\* the loop body that lets a later run of equal length replace the best one
ScanStep_latest(mask, i, st) ==
    LET best == st[1]
        cur_s == st[2]
        cur_len == st[3]
    IN  IF PyAt(mask, i)
        THEN IF cur_s = None THEN <<best, <<i>>, 1>> ELSE <<best, cur_s, cur_len + 1>>
        ELSE <<IF cur_s # None /\ cur_len >= best[3] THEN <<cur_s, <<i - 1>>, cur_len>> ELSE best,
               None, 0>>

\* _find_longest_true_window.  The loop state is <<best, cur_s, cur_len>>,
\* best = <<start, end, length>>, with start, end and cur_s None or <<index>>.
\* ScanStep is the loop body at index i; ScanLoop runs it over a..b in order.
ScanStep(mask, i, st) ==
    LET best == st[1]
        cur_s == st[2]
        cur_len == st[3]
    IN  IF PyAt(mask, i)
        THEN IF cur_s = None THEN <<best, <<i>>, 1>> ELSE <<best, cur_s, cur_len + 1>>
        ELSE <<IF cur_s # None /\ cur_len > best[3] THEN <<cur_s, <<i - 1>>, cur_len>> ELSE best,
               None, 0>>

RECURSIVE ScanLoop(_, _, _, _)
ScanLoop(mask, a, b, st) ==
    IF b < a THEN st
    ELSE IF a = b THEN ScanStep(mask, a, st)
    ELSE LET m == (a + b) \div 2
             first == ScanLoop(mask, a, m, st)
         IN  \* the state after a..m is computed before m+1..b runs
             IF first[3] >= 0 THEN ScanLoop(mask, m + 1, b, first) ELSE first

find_longest_true_window(mask, start_idx, end_idx) ==
    LET st == ScanLoop(mask, start_idx, end_idx, <<<<None, None, 0>>, None, 0>>)
    IN  IF st[2] # None /\ st[3] > st[1][3] THEN <<st[2], <<end_idx>>, st[3]>> ELSE st[1]

\* the five zones, as <<start, end>>
Zones(n, base_end) ==
    << <<0, base_end>>,
       <<base_end, IntPct(n, 55)>>,
       <<IntPct(n, 45), IntPct(n, 75)>>,
       <<IntPct(n, 70), n - 1>>,
       <<IntPct(n, 85), n - 1>> >>

\* one widen factor, 0.03, for all five layers
Widen_uniform == <<Q(3, 100), Q(3, 100), Q(3, 100), Q(3, 100), Q(3, 100)>>

Widen == <<Q(5, 100), Q(4, 100), Q(3, 100), Q(2, 100), Q(1, 100)>>

\* band_from_zone with min and max exchanged: the highest low and the lowest high
band_from_zone_swapped(candles, z, widen) ==
    LET seg == segment_by_indices(candles, z[1], z[2])
    IN  IF seg = <<>> THEN <<NaN, NaN, None, << <<"empty zone">> >> >>
        ELSE LET lo == SetMax({seg[i].l : i \in 1..Len(seg)})
                 hi == SetMin({seg[i].h : i \in 1..Len(seg)})
                 span == QInt(hi - lo)
                 wlo == IF QGt(widen, QInt(0)) THEN QSub(QInt(lo), QMul(span, widen)) ELSE QInt(lo)
                 whi == IF QGt(widen, QInt(0)) THEN QAdd(QInt(hi), QMul(span, widen)) ELSE QInt(hi)
             IN  <<wlo, whi, weighted_centroid_price(seg), << <<"zone", z[1], z[2]>> >> >>

\* <<lo, hi, cb, evidence>>
band_from_zone(candles, z, widen) ==
    LET seg == segment_by_indices(candles, z[1], z[2])
    IN  IF seg = <<>> THEN <<NaN, NaN, None, << <<"empty zone">> >> >>
        ELSE LET lo == SetMin({seg[i].l : i \in 1..Len(seg)})
                 hi == SetMax({seg[i].h : i \in 1..Len(seg)})
                 span == QInt(hi - lo)
                 wlo == IF QGt(widen, QInt(0)) THEN QSub(QInt(lo), QMul(span, widen)) ELSE QInt(lo)
                 whi == IF QGt(widen, QInt(0)) THEN QAdd(QInt(hi), QMul(span, widen)) ELSE QInt(hi)
                 cb == weighted_centroid_price(seg)
             IN  <<wlo, whi, cb,
                   << <<"zone", z[1], z[2]>>,
                      IF cb # None /\ cb[1] # 0 THEN <<"centroid", cb>> ELSE <<"centroid=None">> >> >>

\* the indices entry_window reads for zone z: mask[i] over the zone, then
\* candles[s], candles[e] of the run found or of the fallback window
FallbackStart(z) == z[1] + Trunc(Q((z[2] - z[1]) * 6, 10))

entry_window_ok(candles, compression, z) ==
    /\ \A i \in z[1]..z[2] : InRange(compression, i)
    /\ LET w == find_longest_true_window(compression, z[1], z[2])
       IN  IF w[1] = None
           THEN InRange(candles, FallbackStart(z)) /\ InRange(candles, z[2])
           ELSE InRange(candles, w[1][1]) /\ InRange(candles, w[2][1])

\* <<start_ts, end_ts, conf, evidence>>
entry_window(candles, compression, z) ==
    LET w == find_longest_true_window(compression, z[1], z[2])
    IN  IF w[1] = None
        THEN LET ss == FallbackStart(z)
                 ee == z[2]
             IN  <<PyAt(candles, ss).ts, PyAt(candles, ee).ts, Q(35, 100),
                   << <<"fallback window idx", ss, ee>> >> >>
        ELSE LET conf == clamp(Q(w[3], Max2(10, z[2] - z[1] + 1)), Q(35, 100), Q(85, 100))
             IN  <<PyAt(candles, w[1][1]).ts, PyAt(candles, w[2][1]).ts, conf,
                   << <<"compression window idx", w[1][1], w[2][1], w[3]>> >> >>

state_for_zone_ok(dist_flags, abs_flags, z) ==
    \A i \in z[1]..z[2] : InRange(dist_flags, i) /\ InRange(abs_flags, i)

\* state_for_zone with the 0.10 thresholds included: a rate of exactly 0.10 counts
state_for_zone_ge(dist_flags, abs_flags, z) ==
    LET d == Cardinality({i \in z[1]..z[2] : PyAt(dist_flags, i)})
        a == Cardinality({i \in z[1]..z[2] : PyAt(abs_flags, i)})
        total == Max2(1, z[2] - z[1] + 1)
        d_rate == Q(d, total)
        a_rate == Q(a, total)
        ev == << <<"dist_rate", d_rate>>, <<"abs_rate", a_rate>> >>
    IN  IF QGe(d_rate, Q(10, 100)) /\ QGt(d_rate, a_rate)
        THEN <<"distributing", clamp(QAdd(Q(55, 100), d_rate), Q(55, 100), Q(85, 100)), ev>>
        ELSE IF QGe(a_rate, Q(10, 100)) /\ QGt(a_rate, d_rate)
        THEN <<"accumulating", clamp(QAdd(Q(55, 100), a_rate), Q(55, 100), Q(85, 100)), ev>>
        ELSE <<"holding", Q(55, 100), ev>>

\* <<state, conf, evidence>>
state_for_zone(dist_flags, abs_flags, z) ==
    LET d == Cardinality({i \in z[1]..z[2] : PyAt(dist_flags, i)})
        a == Cardinality({i \in z[1]..z[2] : PyAt(abs_flags, i)})
        total == Max2(1, z[2] - z[1] + 1)
        d_rate == Q(d, total)
        a_rate == Q(a, total)
        ev == << <<"dist_rate", d_rate>>, <<"abs_rate", a_rate>> >>
    IN  IF QGt(d_rate, Q(10, 100)) /\ QGt(d_rate, a_rate)
        THEN <<"distributing", clamp(QAdd(Q(55, 100), d_rate), Q(55, 100), Q(85, 100)), ev>>
        ELSE IF QGt(a_rate, Q(10, 100)) /\ QGt(a_rate, d_rate)
        THEN <<"accumulating", clamp(QAdd(Q(55, 100), a_rate), Q(55, 100), Q(85, 100)), ev>>
        ELSE <<"holding", Q(55, 100), ev>>

\* a blend that takes 0.6 for the verifier whatever the Verifier stage found
combine_conf_fixed(a, b, c) ==
    clamp(QAdd(QAdd(QMul(Q(45, 100), a), QMul(Q(35, 100), b)), QMul(Q(20, 100), Q(6, 10))),
          QInt(0), QInt(1))

combine_conf(a, b, c) ==
    clamp(QAdd(QAdd(QMul(Q(45, 100), a), QMul(Q(35, 100), b)), QMul(Q(20, 100), c)),
          QInt(0), QInt(1))

LayerBand(layer, band, win, st, verifier_conf) ==
    [layer |-> layer,
     price_low |-> band[1], price_high |-> band[2],
     entry_start_ts |-> win[1], entry_end_ts |-> win[2],
     cost_basis |-> band[3],
     state |-> st[1],
     confidence |-> combine_conf(win[3], st[2], verifier_conf),
     evidence |-> band[4] \o win[4] \o st[3] \o << <<"verifier", verifier_conf>> >>]

\* HVN refinement of one finished layer
HvnOverlaps(hvn_sorted, lb) ==
    SelectSeq(hvn_sorted, LAMBDA nd : ~(QLt(nd[2], lb.price_low) \/ QGt(nd[1], lb.price_high)))

hvn_refine(hvn_sorted, lb) ==
    LET overlaps == HvnOverlaps(hvn_sorted, lb)
    IN  IF overlaps = <<>> THEN lb
        ELSE LET nd == overlaps[1]
                 hvn_centroid == QMul(QAdd(nd[1], nd[2]), Q(1, 2))
             IN  [lb EXCEPT
                   !.cost_basis = IF lb.cost_basis # None
                                  THEN QAdd(QMul(lb.cost_basis, Q(7, 10)), QMul(hvn_centroid, Q(3, 10)))
                                  ELSE None,
                   !.evidence = Append(lb.evidence, <<"hvn_hint", hvn_centroid, nd[3]>>)]

\* the first exception resolve_layers raises on ctx, or None
resolve_layers_error(ctx) ==
    LET t == ctx.traces
        n == Len(ctx.candles)
    IN  IF \E k \in {S_structure, S_volume, S_cost_basis, S_regime, S_accum_dist} :
               k \notin DOMAIN t
        THEN <<"KeyError">>
        ELSE IF "base_end_idx" \notin DOMAIN t[S_structure] THEN <<"KeyError">>
        ELSE IF "compression_mask" \notin DOMAIN t[S_regime] THEN <<"KeyError">>
        ELSE LET zs == Zones(n, t[S_structure].base_end_idx)
             IN  IF \E x \in 1..5 : ~entry_window_ok(ctx.candles, t[S_regime].compression_mask, zs[x])
                 THEN <<"IndexError">>
                 ELSE IF {"distribution_flags", "absorption_flags"} \subseteq DOMAIN t[S_accum_dist]
                 THEN IF \E x \in 1..5 : ~state_for_zone_ok(t[S_accum_dist].distribution_flags,
                                                            t[S_accum_dist].absorption_flags, zs[x])
                      THEN <<"IndexError">>
                      ELSE None
                 ELSE <<"KeyError">>

resolve_layers_value(ctx) ==
    LET t == ctx.traces
        candles == ctx.candles
        zs == Zones(Len(candles), t[S_structure].base_end_idx)
        hvn_sorted == SortByVolDesc(Get(t[S_volume], "hvn", <<>>))
        verifier_conf == Get(Get(t, S_verifier, EmptyDict), "_confidence", Q(6, 10))
        layers == List([x \in 1..5 |->
                           LayerBand(x,
                                     band_from_zone(candles, zs[x], Widen[x]),
                                     entry_window(candles, t[S_regime].compression_mask, zs[x]),
                                     state_for_zone(t[S_accum_dist].distribution_flags,
                                                    t[S_accum_dist].absorption_flags, zs[x]),
                                     verifier_conf)])
    IN  IF hvn_sorted # <<>>
        THEN List([x \in 1..5 |-> hvn_refine(hvn_sorted, layers[x])])
        ELSE layers

resolve_layers(ctx) ==
    LET e == resolve_layers_error(ctx)
    IN  IF e # None THEN Err(e[1]) ELSE Ok(resolve_layers_value(ctx))

\* ------------------------------------------------------------------------
\* 7) Orchestrator: pure parts
\* ------------------------------------------------------------------------
\* the agent list with Volume ahead of Structure
internal_agents_swapped ==
    <<VolumeAgentName, StructureAgentName, CostBasisAgentName,
      RegimeAgentName, AccumDistAgentName, VerifierAgentName>>

internal_agents ==
    <<StructureAgentName, VolumeAgentName, CostBasisAgentName,
      RegimeAgentName, AccumDistAgentName, VerifierAgentName>>

\* agent.run(ctx) of the built-in agent called name
Agent_run(name, ctx) ==
    CASE name = StructureAgentName -> StructureAgent_run(ctx)
      [] name = VolumeAgentName    -> VolumeAgent_run(ctx)
      [] name = CostBasisAgentName -> CostBasisAgent_run(ctx)
      [] name = RegimeAgentName    -> RegimeAgent_run(ctx)
      [] name = AccumDistAgentName -> AccumDistAgent_run(ctx)
      [] name = VerifierAgentName  -> VerifierAgent_run(ctx)

\* name.split(".")[-1]
RECURSIVE LastSegment(_)
LastSegment(name) ==
    IF \A i \in 1..Len(name) : name[i] # "."
    THEN name
    ELSE LastSegment(Tail(name))

\* name.split(".")[0]
FirstSegment(name) ==
    IF \A i \in 1..Len(name) : name[i] # "."
    THEN name
    ELSE SubSeq(name, 1, (CHOOSE i \in 1..Len(name) :
                              name[i] = "." /\ \A j \in 1..(i - 1) : name[j] # ".") - 1)

TraceKey(name) == LastSegment(name)

\* the trace stored for a result: its output with the reserved sub-fields
TraceEntry(res) ==
    LET e == Put(Put(res.output, "_confidence", res.confidence), "_evidence", res.evidence)
    IN  IF Truthy(res.warnings) THEN Put(e, "_warnings", res.warnings) ELSE e

\* the body of the stage loop after the await: <<traces', error or None>>
FoldResult(traces, name, res) ==
    LET key == TraceKey(name)
    IN  IF res = None THEN <<traces, <<"AttributeError">>>>
        ELSE IF res.output = None THEN <<Put(traces, key, None), <<"TypeError">>>>
        ELSE <<Put(traces, key, TraceEntry(res)), None>>

\* ------------------------------------------------------------------------
\* 1) Agent registry
\* ------------------------------------------------------------------------
StartsWith(str, prefix) ==
    Len(prefix) <= Len(str) /\ SubSeq(str, 1, Len(prefix)) = prefix

\* the loop of AgentRegistry.resolve from route i on; best is None or <<prefix, adapter>>
RECURSIVE ResolveLoop(_, _, _, _)
ResolveLoop(rts, task_name, i, best) ==
    IF i > Len(rts) THEN best
    ELSE LET prefix == rts[i][1]
             take == /\ StartsWith(task_name, prefix)
                     /\ (best = None \/ Len(prefix) > Len(best[1]))
         IN  ResolveLoop(rts, task_name, i + 1, IF take THEN rts[i] ELSE best)

\* a lookup that returns the first route whose prefix matches, whatever its length
resolve_first_match(rts, task_name) ==
    LET M == {i \in 1..Len(rts) : StartsWith(task_name, rts[i][1])}
    IN  IF M = {} THEN None ELSE <<rts[SetMin(M)][2]>>

\* a registry lookup that finds no adapter
resolve_none(rts, task_name) == None

\* AgentRegistry.resolve: None, or <<adapter>>
resolve(rts, task_name) ==
    LET best == ResolveLoop(rts, task_name, 1, None)
    IN  IF best # None THEN <<best[2]>> ELSE None

\* ------------------------------------------------------------------------
\* 7) Orchestrator: state
\* ------------------------------------------------------------------------
Runs == {1, 2}

VARIABLES
    routes,     \* registry._routes: list of <<prefix, adapter>>
    pc,         \* per analyze call: "idle", "stage", "await", "resolve", "done", "failed"
    args,       \* per call: the arguments of analyze, None before the call
    ctx,        \* per call: its GenesisContext, traces being a reference into dicts
    dicts,      \* the trace dict objects, by reference
    stage,      \* per call: index in internal_agents of the agent of the loop
    pending,    \* per call: the adapter awaited and the AgentTask handed to it
    result,     \* per call: None, Ok(SMCLayerMap) or Err(exception)
    log,        \* per call: what it has done so far, in order
    runtime,    \* the HumanoidGenesisRuntime object and the position of its run_once
    cli         \* one run of the genesis_cli main flow and the files it leaves

vars == <<routes, pc, args, ctx, dicts, stage, pending, result, log, runtime, cli>>

\* HumanoidGenesisRuntime.__init__: emergency_stop is False; nothing runs yet
NewRuntime == [emergency_stop |-> FALSE, pc |-> "idle", calls |-> 0, trace |-> <<>>]

\* genesis_cli before main is entered
NotStarted == [pc |-> "none"]

\* one traces dict kept by the engine and handed to every call
NewTracesShared(r) == 1

\* traces={} in analyze: a fresh dict for every call
NewTraces(r) == r

\* the context of call r reading the traces of the first call
CtxFirst(r) == [ctx[r] EXCEPT !.traces = dicts[1]]

\* the context of call r with its traces dereferenced
Ctx(r) == [ctx[r] EXCEPT !.traces = dicts[ctx[r].traces]]

AgentTask(name, c, traces_ref) ==
    [name |-> name,
     input |-> [symbol |-> c.symbol, timeframe |-> c.timeframe, params |-> c.params,
                candles_head |-> SubSeq(c.candles, 1, Min2(200, Len(c.candles))),
                candles_tail |-> SubSeq(c.candles, Max2(1, Len(c.candles) - 199), Len(c.candles)),
                traces_so_far |-> traces_ref]]

SMCLayerMap(c, layers) ==
    [symbol |-> c.symbol, timeframe |-> c.timeframe,
     start_ts |-> c.candles[1].ts, end_ts |-> c.candles[Len(c.candles)].ts,
     layers |-> layers,
     notes |-> <<"This is a cost-basis proxy inference, not true holder cost basis.",
                 "Confidence is ensemble of regime window + acc/dist signals + verifier checks.">>,
     meta |-> [params |-> c.params]]

\* an entry of the log: what happened, and the agent name it happened for
Event(ev, name) == [ev |-> ev, k |-> name]

\* ------------------------------------------------------------------------
\* What an external adapter may answer for stage k of a run over n candles
\* ------------------------------------------------------------------------
AdapterOutputs(k, n) ==
    CASE k = 1 -> {[base_end_idx |-> b] : b \in {-1, 40, n}}
      [] k = 2 -> {[hvn |-> << <<Q(1, 1), Q(2, 1), 5>> >>]}
      [] k = 3 -> {[anchors |-> <<0>>]}
      [] k = 4 -> {[compression_mask |-> [i \in 1..n |-> i % 3 = 0]]}
      [] k = 5 -> {[distribution_flags |-> [i \in 1..n |-> i % 4 = 0],
                    absorption_flags |-> [i \in 1..n |-> FALSE]]}
      [] k = 6 -> {[checks_ok |-> 0]}

\* a dict with none of the fields any stage or the resolver reads
Unrelated == [note |-> TRUE]

AdapterResults(k, n) ==
    {None}
    \cup {[name |-> internal_agents[k], output |-> o, confidence |-> Q(1, 2),
           evidence |-> <<>>, warnings |-> <<>>] : o \in {None, Unrelated}}
    \cup {[name |-> internal_agents[k], output |-> o, confidence |-> Q(1, 2),
           evidence |-> << <<"external">> >>, warnings |-> << <<"approximate">> >>] :
            o \in AdapterOutputs(k, n)}

\* ------------------------------------------------------------------------
\* Inputs
\* ------------------------------------------------------------------------
Candle(ts, o, h, l, c, v) == [ts |-> ts, o |-> o, h |-> h, l |-> l, c |-> c, v |-> v]

\* two series of n candles with prices in 1..3: a base, a breakout and a
\* markup; A has strictly increasing timestamps, B repeats each timestamp
CandlesA(n) ==
    [x \in 1..n |->
        LET i == x - 1
            ph == (i % 6) + 1
            lhc == IF i < 30 THEN << <<1, 2, 1>>, <<1, 2, 2>>, <<1, 1, 1>>,
                                     <<1, 2, 2>>, <<1, 2, 1>>, <<1, 1, 1>> >>[ph]
                   ELSE IF i < 70 THEN << <<1, 3, 3>>, <<2, 3, 2>>, <<2, 2, 2>>,
                                          <<2, 3, 3>>, <<2, 3, 2>>, <<2, 2, 2>> >>[ph]
                   ELSE << <<2, 3, 3>>, <<3, 3, 3>>, <<2, 3, 2>>,
                           <<3, 3, 3>>, <<2, 3, 3>>, <<2, 2, 2>> >>[ph]
            v == <<1, 3, 2, 3, 1, 0>>[((i * 5 + i \div 7) % 6) + 1]
        IN  Candle(i, lhc[1], lhc[2], lhc[1], lhc[3], v)]

CandlesB(n) ==
    [x \in 1..n |->
        LET i == x - 1
            ph == (i % 4) + 1
            lhc == IF i < 60 THEN << <<1, 1, 1>>, <<1, 1, 1>>, <<1, 2, 1>>, <<1, 1, 1>> >>[ph]
                   ELSE << <<1, 3, 2>>, <<2, 3, 3>>, <<1, 3, 1>>, <<2, 2, 2>> >>[ph]
            v == <<2, 1, 3, 1>>[((i + i \div 5) % 4) + 1]
        IN  Candle(i \div 2, lhc[3], lhc[2], lhc[1], lhc[3], v)]

MinCandles == 100

\* a flat market: 150 candles with o = h = l = c = 100 and v = 10
FlatCandles == List([x \in 1..150 |-> Candle(x - 1, 100, 100, 100, 100, 10)])

AnalyzeArgs ==
    {[symbol |-> "XAGUSD", timeframe |-> "4H", candles |-> cs, params |-> None] :
        cs \in {None, List(CandlesA(MinCandles \div 2)), List(CandlesB(MinCandles - 1)),
                List(CandlesA(MinCandles)), List(CandlesB(MinCandles + 1)), FlatCandles}}

\* the register calls a caller may make: a short prefix of the Volume and
\* Verifier names under two adapters, the Volume name itself, and a longer
\* name no agent has
Registrations ==
    {<<S_internal \o Dot \o <<"v">>, "A1">>, <<S_internal \o Dot \o <<"v">>, "A2">>,
     <<VolumeAgentName, "A2">>, <<VolumeAgentName \o <<"s">>, "A1">>}
MaxRoutes == 2

\* ------------------------------------------------------------------------
\* 7) Orchestrator: actions
\* ------------------------------------------------------------------------
Init ==
    /\ routes = <<>>
    /\ pc = [r \in Runs |-> "idle"]
    /\ args = [r \in Runs |-> None]
    /\ ctx = [r \in Runs |-> None]
    /\ dicts = [r \in Runs |-> EmptyDict]
    /\ stage = [r \in Runs |-> 0]
    /\ pending = [r \in Runs |-> None]
    /\ result = [r \in Runs |-> None]
    /\ log = [r \in Runs |-> <<>>]
    /\ runtime = NewRuntime
    /\ cli = NotStarted

\* AgentRegistry.register; adapters are registered while no call is in flight
Register(prefix, adapter) ==
    /\ Len(routes) < MaxRoutes
    /\ \A r \in Runs : pc[r] = "idle"
    /\ routes' = Append(routes, <<prefix, adapter>>)
    /\ UNCHANGED <<pc, args, ctx, dicts, stage, pending, result, log, runtime, cli>>

\* a candle check that also turns away exactly MinCandles candles
TooFewCandlesInclusive(candles) == ~Truthy(candles) \/ Len(candles) <= MinCandles

\* the candle check of analyze: not candles or len(candles) < 100
TooFewCandles(candles) == ~Truthy(candles) \/ Len(candles) < MinCandles

\* analyze is called: the candle check, then the context is built
Analyze(r, a) ==
    /\ pc[r] = "idle"
    /\ args' = [args EXCEPT ![r] = a]
    /\ IF TooFewCandles(a.candles)
       THEN /\ pc' = [pc EXCEPT ![r] = "failed"]
            /\ result' = [result EXCEPT ![r] = Err("ValueError")]
            /\ UNCHANGED <<ctx, dicts, stage>>
       ELSE /\ pc' = [pc EXCEPT ![r] = "stage"]
            /\ ctx' = [ctx EXCEPT ![r] =
                          [symbol |-> a.symbol, timeframe |-> a.timeframe,
                           candles |-> a.candles,
                           params |-> IF Truthy(a.params) THEN a.params ELSE EmptyDict,
                           traces |-> NewTraces(r)]]
            /\ dicts' = [dicts EXCEPT ![NewTraces(r)] = EmptyDict]
            /\ stage' = [stage EXCEPT ![r] = 1]
            /\ UNCHANGED result
    /\ UNCHANGED <<routes, pending, log, runtime, cli>>

\* the agent the stage loop of call r is at
Agent(r) == internal_agents[stage[r]]

\* the end of one iteration of the stage loop: the result is folded into the
\* traces and the loop moves on, or the exception ends the call
FoldAndAdvance(r, res, events) ==
    LET f == FoldResult(dicts[ctx[r].traces], Agent(r), res)
    IN  /\ dicts' = [dicts EXCEPT ![ctx[r].traces] = f[1]]
        /\ IF f[2] # None
           THEN /\ pc' = [pc EXCEPT ![r] = "failed"]
                /\ result' = [result EXCEPT ![r] = Err(f[2][1])]
                /\ log' = [log EXCEPT ![r] = @ \o events]
                /\ UNCHANGED stage
           ELSE /\ pc' = [pc EXCEPT ![r] =
                             IF stage[r] = Len(internal_agents) THEN "resolve" ELSE "stage"]
                /\ stage' = [stage EXCEPT ![r] = @ + 1]
                /\ log' = [log EXCEPT ![r] = @ \o events \o <<Event("store", Agent(r))>>]
                /\ UNCHANGED result

\* _run_agent with no adapter registered for the agent: agent.run(ctx)
RunBuiltin(r) ==
    /\ pc[r] = "stage"
    /\ resolve(routes, Agent(r)) = None
    /\ LET res == Agent_run(Agent(r), Ctx(r))
       IN  IF res.ok
           THEN FoldAndAdvance(r, res.val, <<Event("builtin", Agent(r))>>)
           ELSE /\ pc' = [pc EXCEPT ![r] = "failed"]
                /\ result' = [result EXCEPT ![r] = res]
                /\ log' = [log EXCEPT ![r] = Append(@, Event("builtin", Agent(r)))]
                /\ UNCHANGED <<dicts, stage>>
    /\ UNCHANGED <<routes, args, ctx, pending, runtime, cli>>

\* _run_agent with an adapter: the task is built and adapter.run_task awaited
RunDelegated(r) ==
    /\ pc[r] = "stage"
    /\ LET ad == resolve(routes, Agent(r))
       IN  /\ ad # None
           /\ pending' = [pending EXCEPT ![r] =
                             [adapter |-> ad[1],
                              task |-> AgentTask(Agent(r), ctx[r], ctx[r].traces)]]
           /\ log' = [log EXCEPT ![r] =
                         Append(@, [ev |-> "task", k |-> Agent(r), adapter |-> ad[1]])]
    /\ pc' = [pc EXCEPT ![r] = "await"]
    /\ UNCHANGED <<routes, args, ctx, dicts, stage, result, runtime, cli>>

\* adapter.run_task returns some result
AdapterReturn(r) ==
    /\ pc[r] = "await"
    /\ pending' = [pending EXCEPT ![r] = None]
    /\ \E res \in AdapterResults(stage[r], Len(ctx[r].candles)) :
           FoldAndAdvance(r, res, <<[ev |-> "return", k |-> Agent(r), res |-> res]>>)
    /\ UNCHANGED <<routes, args, ctx, runtime, cli>>

\* an engine that goes back to the stage when the adapter raises
AdapterRaiseRetry(r) ==
    /\ pc[r] = "await"
    /\ pending' = [pending EXCEPT ![r] = None]
    /\ pc' = [pc EXCEPT ![r] = "stage"]
    /\ log' = [log EXCEPT ![r] = Append(@, Event("raise", Agent(r)))]
    /\ UNCHANGED <<routes, args, ctx, dicts, stage, result, runtime, cli>>

\* adapter.run_task raises: nothing in _run_agent or analyze catches it
AdapterRaise(r) ==
    /\ pc[r] = "await"
    /\ pending' = [pending EXCEPT ![r] = None]
    /\ pc' = [pc EXCEPT ![r] = "failed"]
    /\ result' = [result EXCEPT ![r] = Err("AdapterError")]
    /\ log' = [log EXCEPT ![r] = Append(@, Event("raise", Agent(r)))]
    /\ UNCHANGED <<routes, args, ctx, dicts, stage, runtime, cli>>

\* after the loop: resolve_layers, then the SMCLayerMap is returned
Resolve(r) ==
    /\ pc[r] = "resolve"
    /\ LET layers == resolve_layers(Ctx(r))
       IN  IF layers.ok
           THEN /\ pc' = [pc EXCEPT ![r] = "done"]
                /\ result' = [result EXCEPT ![r] = Ok(SMCLayerMap(ctx[r], layers.val))]
           ELSE /\ pc' = [pc EXCEPT ![r] = "failed"]
                /\ result' = [result EXCEPT ![r] = layers]
    /\ log' = [log EXCEPT ![r] = Append(@, Event("resolve", <<>>))]
    /\ UNCHANGED <<routes, args, ctx, dicts, stage, pending, runtime, cli>>

\* one engine, adapters registered first, then one call of analyze
Next ==
    \/ \E reg \in Registrations : Register(reg[1], reg[2])
    \/ \E a \in AnalyzeArgs : Analyze(1, a)
    \/ RunBuiltin(1)
    \/ RunDelegated(1)
    \/ AdapterReturn(1)
    \/ AdapterRaise(1)
    \/ Resolve(1)

Spec == Init /\ [][Next]_vars

\* ------------------------------------------------------------------------
\* An engine built on a registry that already holds its routes: every stage
\* delegated, or Structure, Regime and AccumDist delegated and the rest built in
\* ------------------------------------------------------------------------
DelegatedRegistries ==
    { << <<S_internal, "A1">> >>,
      << <<S_internal \o Dot \o <<"s">>, "A1">>, <<S_internal \o Dot \o <<"r">>, "A2">>,
         <<S_internal \o Dot \o <<"a">>, "A1">> >> }

InitDelegated ==
    /\ routes \in DelegatedRegistries
    /\ pc = [r \in Runs |-> "idle"]
    /\ args = [r \in Runs |-> None]
    /\ ctx = [r \in Runs |-> None]
    /\ dicts = [r \in Runs |-> EmptyDict]
    /\ stage = [r \in Runs |-> 0]
    /\ pending = [r \in Runs |-> None]
    /\ result = [r \in Runs |-> None]
    /\ log = [r \in Runs |-> <<>>]
    /\ runtime = NewRuntime
    /\ cli = NotStarted

NextDelegated ==
    \/ \E a \in AnalyzeArgs : Analyze(1, a)
    \/ RunBuiltin(1)
    \/ RunDelegated(1)
    \/ AdapterReturn(1)
    \/ AdapterRaise(1)
    \/ Resolve(1)

SpecDelegated == InitDelegated /\ [][NextDelegated]_vars

\* ------------------------------------------------------------------------
\* Two calls of analyze on one engine, interleaved at every step; the engine
\* has no adapter, or one for the Volume stage
\* ------------------------------------------------------------------------
PairRegistries == { <<>>, << <<VolumeAgentName, "A1">> >> }

PairArgs == {a \in AnalyzeArgs : ~TooFewCandles(a.candles) /\ a.candles # FlatCandles}

InitPair ==
    /\ routes \in PairRegistries
    /\ pc = [r \in Runs |-> "idle"]
    /\ args = [r \in Runs |-> None]
    /\ ctx = [r \in Runs |-> None]
    /\ dicts = [r \in Runs |-> EmptyDict]
    /\ stage = [r \in Runs |-> 0]
    /\ pending = [r \in Runs |-> None]
    /\ result = [r \in Runs |-> None]
    /\ log = [r \in Runs |-> <<>>]
    /\ runtime = NewRuntime
    /\ cli = NotStarted

NextPair ==
    \E r \in Runs :
        \/ \E a \in PairArgs : Analyze(r, a)
        \/ RunBuiltin(r)
        \/ RunDelegated(r)
        \/ AdapterReturn(r)
        \/ AdapterRaise(r)
        \/ Resolve(r)

SpecPair == InitPair /\ [][NextPair]_vars

\* ------------------------------------------------------------------------
\* The six built-in stages and resolve_layers driven directly by a caller on
\* short series (resolve_layers and the agents are public; only analyze asks
\* for MinCandles candles)
\* ------------------------------------------------------------------------
MaxLen == 5

\* <<l, h, c, v>> of the candle shapes; the open is the low
Shapes == << <<1, 1, 1, 1>>, <<1, 2, 2, 2>>, <<2, 3, 3, 3>>, <<1, 3, 2, 0>> >>

\* timestamps: one per bar, or each repeated once (non-decreasing)
TsModes == {"strict", "repeated"}

SmallCandles(f, mode) ==
    [x \in DOMAIN f |->
        Candle(IF mode = "strict" THEN x - 1 ELSE (x - 1) \div 2,
               Shapes[f[x]][1], Shapes[f[x]][2], Shapes[f[x]][1], Shapes[f[x]][3], Shapes[f[x]][4])]

SmallParams ==
    [swing_left |-> 1, swing_right |-> 1, vap_bins |-> 3, hvn_topk |-> 2,
     vol_window |-> 2, atr_window |-> 2, range_window |-> 2, vol_sma_window |-> 2]

InitResolve ==
    /\ routes = <<>>
    /\ \E n \in 1..MaxLen : \E f \in [1..n -> 1..Len(Shapes)] : \E mode \in TsModes :
          ctx = [r \in Runs |->
                    IF r = 1
                    THEN [symbol |-> "XAGUSD", timeframe |-> "4H",
                          candles |-> List(SmallCandles(f, mode)),
                          params |-> SmallParams, traces |-> NewTraces(1)]
                    ELSE None]
    /\ pc = [r \in Runs |-> IF r = 1 THEN "stage" ELSE "idle"]
    /\ stage = [r \in Runs |-> IF r = 1 THEN 1 ELSE 0]
    /\ args = [r \in Runs |-> None]
    /\ dicts = [r \in Runs |-> EmptyDict]
    /\ pending = [r \in Runs |-> None]
    /\ result = [r \in Runs |-> None]
    /\ log = [r \in Runs |-> <<>>]
    /\ runtime = NewRuntime
    /\ cli = NotStarted

NextResolve == RunBuiltin(1) \/ Resolve(1)

SpecResolve == InitResolve /\ [][NextResolve]_vars

\* ------------------------------------------------------------------------
\* Properties
\* ------------------------------------------------------------------------
Done(r) == pc[r] = "done"
Finished(r) == pc[r] \in {"done", "failed"}
Layers(r) == result[r].val.layers

\* the agent names in the order of the pipeline, and the trace key of each
StageOrder ==
    <<StructureAgentName, VolumeAgentName, CostBasisAgentName,
      RegimeAgentName, AccumDistAgentName, VerifierAgentName>>
StageKeys == <<S_structure, S_volume, S_cost_basis, S_regime, S_accum_dist, S_verifier>>
KeyOf(name) == StageKeys[CHOOSE i \in 1..6 : StageOrder[i] = name]

IsPrefix(p, t) == Len(p) <= Len(t) /\ \A i \in 1..Len(p) : p[i] = t[i]

\* positions of the log of call r holding one of the events evs, before position i
Before(r, evs, i) == {j \in 1..(i - 1) : log[r][j].ev \in evs}
Events(r, evs) == Before(r, evs, Len(log[r]) + 1)

BandOk(lb) ==
    /\ \/ IsNaN(lb.price_low) /\ IsNaN(lb.price_high)
       \/ ~IsNaN(lb.price_low) /\ ~IsNaN(lb.price_high) /\ QLe(lb.price_low, lb.price_high)
    /\ QLe(QInt(0), lb.confidence) /\ QLe(lb.confidence, QInt(1))

\* C1: on every non-empty series, with the traces the built-in stages
\* produce, resolve_layers returns exactly five bands numbered 1..5 in that
\* order, each with price_low <= price_high (or both NaN) and a confidence
\* in [0, 1].
C1_FiveBands ==
    \A r \in Runs :
        /\ pc[r] = "resolve" => resolve_layers(Ctx(r)).ok
        /\ Done(r) =>
              /\ Len(Layers(r)) = 5
              /\ \A i \in 1..5 : Layers(r)[i].layer = i /\ BandOk(Layers(r)[i])

\* a finished resolution with one empty (NaN) zone and one widened band
C1_Witness ==
    /\ Done(1)
    /\ \E i \in 1..5 : IsNaN(Layers(1)[i].price_low)
    /\ \E i \in 1..5 : QLt(Layers(1)[i].price_low, QInt(1))

\* C2: on series sorted by non-decreasing timestamp, every layer
\* resolve_layers returns has entry_start_ts <= entry_end_ts, also when
\* base_end_idx is larger than int(0.55*n) and when the window is the
\* fallback window.
C2_EntryOrdered ==
    \A r \in Runs :
        Done(r) => \A i \in 1..5 : Layers(r)[i].entry_start_ts <= Layers(r)[i].entry_end_ts

\* C3: analyze called with fewer than 100 candles (none or an empty list
\* included) fails with the ValueError before any stage or adapter runs, and
\* returns no SMCLayerMap; with 100 candles or more that error never occurs.
C3_MinCandles ==
    \A r \in Runs :
        pc[r] # "idle" =>
            IF Len(args[r].candles) < 100
            THEN /\ pc[r] = "failed"
                 /\ result[r] = Err("ValueError")
                 /\ log[r] = <<>>
                 /\ ctx[r] = None /\ pending[r] = None /\ dicts[r] = EmptyDict
            ELSE result[r] # Err("ValueError")

\* a call with 99 candles that has failed, nothing run
C3_Witness ==
    /\ pc[1] = "failed"
    /\ Len(args[1].candles) = 99
    /\ routes # <<>>

\* C4: the six stages run once each in the order Structure, Volume,
\* CostBasis, Regime, AccumDist, Verifier; a stage starts only when the
\* results of all stages before it are stored in the traces (delegated or
\* not), and resolve_layers is called once, after all six traces exist.
C4_StageOrder ==
    \A r \in Runs :
        LET L == log[r]
            starts(i) == Cardinality(Before(r, {"builtin", "task"}, i))
            stores(i) == Cardinality(Before(r, {"store"}, i))
            traces == IF ctx[r] = None THEN EmptyDict ELSE dicts[ctx[r].traces]
        IN  /\ \A i \in 1..Len(L) :
                  /\ L[i].ev \in {"builtin", "task"} =>
                        /\ starts(i) = stores(i) /\ starts(i) < 6
                        /\ L[i].k = StageOrder[starts(i) + 1]
                  /\ L[i].ev \in {"return", "raise"} =>
                        /\ i > 1 /\ L[i - 1].ev = "task" /\ L[i - 1].k = L[i].k
                  /\ L[i].ev = "store" =>
                        /\ starts(i) = stores(i) + 1
                        /\ L[i].k = StageOrder[stores(i) + 1]
                        /\ StageKeys[stores(i) + 1] \in DOMAIN traces
                  /\ L[i].ev = "resolve" => stores(i) = 6 /\ i = Len(L)
            /\ pc[r] \in {"resolve", "done"} =>
                  /\ Cardinality(Events(r, {"store"})) = 6
                  /\ \A x \in 1..6 : StageKeys[x] \in DOMAIN traces
            /\ Done(r) => L[Len(L)].ev = "resolve"

\* a finished run in which a delegated stage was awaited
C4_Witness ==
    /\ Done(1)
    /\ Events(1, {"task"}) # {}
    /\ Events(1, {"builtin"}) # {}

\* C5: resolve(task_name) is the adapter of the longest registered prefix of
\* task_name, and None exactly when no registered prefix is a prefix of it;
\* the built-in agent is run for exactly the agents with no matching prefix,
\* and for those no task is built and no adapter is called.
C5_LongestPrefix ==
    /\ \A t \in {StageOrder[x] : x \in 1..6} \cup {S_internal} :
          LET M == {i \in 1..Len(routes) : IsPrefix(routes[i][1], t)}
          IN  IF M = {} THEN resolve(routes, t) = None
              ELSE \E i \in M : /\ resolve(routes, t) = <<routes[i][2]>>
                                /\ \A j \in M : Len(routes[j][1]) <= Len(routes[i][1])
    /\ \A r \in Runs : \A x \in 1..Len(log[r]) :
          LET e == log[r][x]
              M == {i \in 1..Len(routes) : IsPrefix(routes[i][1], e.k)}
          IN  /\ e.ev = "builtin" => M = {}
              /\ e.ev \in {"task", "return", "raise"} => M # {}
              /\ e.ev = "task" =>
                    \E i \in M : /\ e.adapter = routes[i][2]
                                 /\ \A j \in M : Len(routes[j][1]) <= Len(routes[i][1])

\* two routes match the Volume agent, the longer registered first; its task
\* went to the adapter of the longer, and Structure ran built in
C5_Witness ==
    /\ Len(routes) = 2
    /\ IsPrefix(routes[1][1], VolumeAgentName) /\ IsPrefix(routes[2][1], VolumeAgentName)
    /\ Len(routes[1][1]) > Len(routes[2][1])
    /\ routes[1][2] # routes[2][2]
    /\ \E x \in 1..Len(log[1]) :
          log[1][x].ev = "task" /\ log[1][x].k = VolumeAgentName
                                /\ log[1][x].adapter = routes[1][2]
    /\ \E x \in 1..Len(log[1]) : log[1][x].ev = "builtin"

\* the fields each stage is expected to publish
ExpectedFields(name) ==
    CASE name = StructureAgentName -> {"base_end_idx"}
      [] name = VolumeAgentName -> {"hvn"}
      [] name = CostBasisAgentName -> {"anchors"}
      [] name = RegimeAgentName -> {"compression_mask"}
      [] name = AccumDistAgentName -> {"distribution_flags", "absorption_flags"}
      [] name = VerifierAgentName -> {"checks_ok"}

\* the fields resolve_layers reads without a default
RequiredFields(name) ==
    IF name \in {StructureAgentName, RegimeAgentName, AccumDistAgentName}
    THEN ExpectedFields(name) ELSE {}

NoResult(e) == e.ev = "return" /\ (e.res = None \/ e.res.output = None)
Lacks(e, fields) == e.ev = "return" /\ ~NoResult(e) /\ ~(fields \subseteq DOMAIN e.res.output)

\* no stage that was delegated is also run built in
NoFallback(r) ==
    \A x, y \in 1..Len(log[r]) :
        log[r][x].ev = "task" /\ log[r][y].ev = "builtin" => log[r][x].k # log[r][y].k

\* C6, as stated: when the adapter of a delegated stage returns no result, or
\* an output without the fields the stage is expected to publish, the run
\* fails and returns no SMCLayerMap, and the built-in stage is not run
\* instead.
C6_MalformedFails ==
    \A r \in Runs :
        /\ (\E x \in 1..Len(log[r]) :
               NoResult(log[r][x]) \/ Lacks(log[r][x], ExpectedFields(log[r][x].k)))
              => ~Done(r)
        /\ NoFallback(r)

\* C6, what the code does instead: no result, or a result with no output,
\* ends the run at once with an error; an output without a field resolve_layers
\* reads without a default (base_end_idx, compression_mask, the two flag
\* lists) makes resolve_layers fail, so no SMCLayerMap is returned; the
\* built-in stage is never run instead.  (An output lacking only fields read
\* with a default, such as hvn, does not fail the run: C6_Witness.)
C6_MalformedAmended ==
    \A r \in Runs :
        /\ \A x \in 1..Len(log[r]) :
              /\ NoResult(log[r][x]) =>
                    /\ x = Len(log[r]) /\ pc[r] = "failed"
                    /\ result[r] = Err(IF log[r][x].res = None
                                       THEN "AttributeError" ELSE "TypeError")
              /\ Lacks(log[r][x], RequiredFields(log[r][x].k)) =>
                    /\ ~Done(r)
                    /\ log[r][Len(log[r])].ev = "resolve" =>
                          pc[r] = "failed" /\ ~result[r].ok
        /\ NoFallback(r)

\* a run that returned its SMCLayerMap although the Volume adapter's output
\* had no hvn and the Verifier adapter's output none of its fields
C6_Witness ==
    /\ Done(1)
    /\ \E x \in 1..Len(log[1]) :
          log[1][x].k = VolumeAgentName /\ Lacks(log[1][x], {"hvn"})
    /\ \E x \in 1..Len(log[1]) :
          log[1][x].k = VerifierAgentName /\ Lacks(log[1][x], {"checks_ok"})

\* C7: when the adapter call of a delegated stage raises, analyze ends with
\* that error: the adapter is not called again, no later stage runs,
\* resolve_layers is not called and no SMCLayerMap is returned.
C7_AdapterErrorAborts ==
    \A r \in Runs :
        /\ \A x \in 1..Len(log[r]) :
              log[r][x].ev = "raise" =>
                  /\ x = Len(log[r])
                  /\ pc[r] = "failed" /\ result[r] = Err("AdapterError")
                  /\ pending[r] = None
        /\ pc[r] = "failed" => ~result[r].ok

\* the Verifier adapter raised after five stages were stored
C7_Witness ==
    /\ pc[1] = "failed"
    /\ log[1] # <<>>
    /\ log[1][Len(log[1])] = Event("raise", VerifierAgentName)
    /\ Cardinality(Events(1, {"store"})) = 5

\* C8: a trace key is written by the fold step of its own stage only, once,
\* with the reserved sub-fields _confidence and _evidence (and _warnings when
\* the result has warnings); afterwards no step changes or replaces it.
C8_WriteOnce ==
    [][\A d \in Runs :
          /\ \A k \in DOMAIN dicts[d] :
                k \in DOMAIN dicts'[d] /\ dicts'[d][k] = dicts[d][k]
          /\ \A k \in (DOMAIN dicts'[d]) \ (DOMAIN dicts[d]) :
                \E r \in Runs :
                    /\ ctx[r] # None /\ ctx[r].traces = d
                    /\ pc[r] \in {"stage", "await"}
                    /\ k = StageKeys[stage[r]]
                    /\ \/ dicts'[d][k] = None /\ pc'[r] = "failed"
                       \/ /\ {"_confidence", "_evidence"} \subseteq DOMAIN dicts'[d][k]
                          /\ "_warnings" \in DOMAIN dicts'[d][k] =>
                                /\ pc[r] = "await"
                                /\ Truthy(log'[r][Len(log'[r]) - 1].res.warnings)]_vars

\* all six traces stored, the delegated Volume trace with its _warnings
C8_Witness ==
    /\ Done(1)
    /\ DOMAIN dicts[1] = {StageKeys[x] : x \in 1..6}
    /\ "_warnings" \in DOMAIN dicts[1][S_volume]

\* the adapter answer call r received for the stage of agent name
Answer(r, name) ==
    log[r][CHOOSE x \in 1..Len(log[r]) :
               log[r][x].k = name /\ log[r][x].ev \in {"return", "raise"}]

\* analyze run on its own, from stage k on, with context c (traces by value)
\* and the adapter answers call r received
RECURSIVE AloneFrom(_, _, _)
AloneFrom(r, c, k) ==
    IF k > 6
    THEN LET layers == resolve_layers(c)
         IN  IF layers.ok THEN Ok(SMCLayerMap(c, layers.val)) ELSE layers
    ELSE LET name == StageOrder[k]
             builtin == \A i \in 1..Len(routes) : ~IsPrefix(routes[i][1], name)
             run == Agent_run(name, c)
             ans == Answer(r, name)
             f == FoldResult(c.traces, name, IF builtin THEN run.val ELSE ans.res)
         IN  IF builtin /\ ~run.ok THEN run
             ELSE IF ~builtin /\ ans.ev = "raise" THEN Err("AdapterError")
             ELSE IF f[2] # None THEN Err(f[2][1])
             ELSE AloneFrom(r, [c EXCEPT !.traces = f[1]], k + 1)

AloneResult(r) ==
    AloneFrom(r, [symbol |-> args[r].symbol, timeframe |-> args[r].timeframe,
                  candles |-> args[r].candles,
                  params |-> IF Truthy(args[r].params) THEN args[r].params ELSE EmptyDict,
                  traces |-> EmptyDict], 1)

BuiltinOnly(r) == Events(r, {"task"}) = {}

\* C9: two calls of analyze with the same symbol, timeframe, candles and
\* params, all stages built in, return the same result, whatever ran on the
\* engine before or in between.
C9_Deterministic ==
    \A r1, r2 \in Runs :
        /\ Finished(r1) /\ Finished(r2)
        /\ args[r1] = args[r2]
        /\ BuiltinOnly(r1) /\ BuiltinOnly(r2)
        => result[r1] = result[r2]

\* both calls returned an SMCLayerMap for the same arguments, all built in
C9_Witness ==
    /\ Done(1) /\ Done(2)
    /\ args[1] = args[2]
    /\ BuiltinOnly(1) /\ BuiltinOnly(2)

\* C10: two interleaved calls of analyze on one engine have each their own
\* traces, holding the results of their own stages only, and each returns
\* what it returns when run alone with the same adapter answers.
C10_Independent ==
    /\ \A r1, r2 \in Runs :
          r1 # r2 /\ ctx[r1] # None /\ ctx[r2] # None => ctx[r1].traces # ctx[r2].traces
    /\ \A r \in Runs :
          ctx[r] # None =>
              /\ {KeyOf(log[r][x].k) : x \in Events(r, {"store"})}
                    \subseteq DOMAIN dicts[ctx[r].traces]
              /\ DOMAIN dicts[ctx[r].traces]
                    \subseteq {KeyOf(log[r][x].k) : x \in Events(r, {"store", "return"})}
    /\ (\A q \in Runs : Finished(q)) => \A r \in Runs : result[r] = AloneResult(r)

\* both calls returned an SMCLayerMap, on different candles, each after
\* waiting for the Volume adapter
C10_Witness ==
    /\ Done(1) /\ Done(2)
    /\ args[1] # args[2]
    /\ ~BuiltinOnly(1) /\ ~BuiltinOnly(2)

\* ------------------------------------------------------------------------
\* Delegation of the Volume stage alone
\* ------------------------------------------------------------------------
\* the registry holds routes for the prefix "internal.volume" and no other
VolumeOnly == routes # <<>> /\ \A i \in 1..Len(routes) : routes[i][1] = VolumeAgentName

\* the hvn_hint notes of a layer
Hints(lb) == SelectSeq(lb.evidence, LAMBDA e : e[1] = "hvn_hint")

\* the hvn_hint notes a layer gets from the hvn list hvn
HintsFrom(hvn, lb) ==
    LET over == HvnOverlaps(SortByVolDesc(hvn), lb)
    IN  IF over = <<>> THEN <<>>
        ELSE << <<"hvn_hint", QMul(QAdd(over[1][1], over[1][2]), Q(1, 2)), over[1][3]>> >>

\* C11: with an adapter registered for "internal.volume" and no other
\* prefix, the built-in Volume stage never runs, the volume trace is the
\* adapter's output with the reserved sub-fields, the other five stages run
\* built in, and the HVN refinement uses the hvn list of the adapter.
C11_VolumeDelegated ==
    \A r \in Runs :
        VolumeOnly /\ ctx[r] # None =>
            /\ \A x \in Events(r, {"builtin"}) : log[r][x].k # VolumeAgentName
            /\ \A x \in Events(r, {"task"}) : log[r][x].k = VolumeAgentName
            /\ \A x \in Events(r, {"store"}) :
                  log[r][x].k # VolumeAgentName =>
                      \E y \in Before(r, {"builtin"}, x) : log[r][y].k = log[r][x].k
            /\ S_volume \in DOMAIN dicts[ctx[r].traces] /\ dicts[ctx[r].traces][S_volume] # None =>
                  LET t == dicts[ctx[r].traces][S_volume]
                      res == Answer(r, VolumeAgentName).res
                  IN  /\ \A f \in DOMAIN res.output : t[f] = res.output[f]
                      /\ DOMAIN t \ DOMAIN res.output
                            = {"_confidence", "_evidence"}
                                 \cup (IF res.warnings # <<>> THEN {"_warnings"} ELSE {})
                      /\ t["_confidence"] = res.confidence
                      /\ t["_evidence"] = res.evidence
                      /\ res.warnings # <<>> => t["_warnings"] = res.warnings
            /\ Done(r) =>
                  LET hvn == Get(Answer(r, VolumeAgentName).res.output, "hvn", <<>>)
                  IN  \A i \in 1..5 : Hints(Layers(r)[i]) = HintsFrom(hvn, Layers(r)[i])

\* a completed call whose Volume stage was delegated: a layer carries the
\* hint of the adapter's bucket, which the histogram of the candles lacks
C11_Witness ==
    /\ VolumeOnly /\ Done(1)
    /\ Events(1, {"builtin"}) # {}
    /\ \E i \in 1..5 : Hints(Layers(1)[i]) = << <<"hvn_hint", Q(3, 2), 5>> >>
    /\ LET own == VolumeAgent_run([Ctx(1) EXCEPT !.traces = EmptyDict]).val.output.hvn
       IN  \A x \in 1..Len(own) : own[x] # <<Q(1, 1), Q(2, 1), 5>>

\* ------------------------------------------------------------------------
\* The flat market
\* ------------------------------------------------------------------------
\* the call was made on the flat series and has delegated nothing
FlatRun(r) == ctx[r] # None /\ args[r].candles = FlatCandles /\ BuiltinOnly(r)

\* the zones resolve_layers uses on the flat series: no close breaks above a
\* swing high, so base_end_idx is int(150 * 0.35) = 52
FlatZones == << <<0, 52>>, <<52, 82>>, <<67, 112>>, <<105, 149>>, <<127, 149>> >>

\* the first bar at which both the rolling-std window (20) and the ATR
\* window (14) have filled
FlatFilled == Max2(20, 14) - 1

\* C12: on 150 candles with o = h = l = c = 100 and v = 10 and default
\* parameters, every bar at which both windows have filled is flagged
\* compressed, no bar has a distribution or absorption flag, and the five
\* layers have state "holding", price_low = price_high = 100 and an entry
\* window that runs over the bars of their zone from the first filled bar to
\* the zone's end.
C12_FlatMarket ==
    \A r \in Runs :
        FlatRun(r) =>
            LET t == dicts[ctx[r].traces]
            IN  /\ S_regime \in DOMAIN t =>
                      \A i \in 1..150 : t[S_regime].compression_mask[i] = (i - 1 >= FlatFilled)
                /\ S_accum_dist \in DOMAIN t =>
                      \A i \in 1..150 : /\ ~t[S_accum_dist].distribution_flags[i]
                                        /\ ~t[S_accum_dist].absorption_flags[i]
                /\ Finished(r) => Done(r)
                /\ Done(r) =>
                      \A x \in 1..5 :
                          LET lb == Layers(r)[x]
                          IN  /\ lb.state = "holding"
                              /\ lb.price_low = QInt(100) /\ lb.price_high = QInt(100)
                              /\ lb.entry_start_ts = Max2(FlatZones[x][1], FlatFilled)
                              /\ lb.entry_end_ts = FlatZones[x][2]

\* the call on the flat series has returned its map
C12_Witness == FlatRun(1) /\ Done(1) /\ Len(FlatCandles) = 150

\* ------------------------------------------------------------------------
\* The public functions called on their own: one call, then its return
\* ------------------------------------------------------------------------
MaxHighs == 6
MaxValues == 4

\* candles whose highs are hs (the low is 0, open and close are the high)
HighsCandles(hs) == List([x \in 1..Len(hs) |-> Candle(x - 1, hs[x], hs[x], 0, hs[x], 1)])

\* all lists of length lo..hi over the set S
Lists(S, lo, hi) == UNION {{List(f) : f \in [1..n -> S]} : n \in lo..hi}

FindSwingsCalls ==
    {[fn |-> "find_swings", candles |-> HighsCandles(hs), left |-> 2, right |-> 2] :
        hs \in Lists(1..4, 1, MaxHighs)}
    \cup {[fn |-> "find_swings", candles |-> List(SmallCandles(f, "strict")),
            left |-> left, right |-> right] :
              f \in UNION {[1..n -> 1..3] : n \in 0..MaxValues},
              left \in 0..2, right \in 0..2}

SmaCalls ==
    {[fn |-> "sma", values |-> vs, window |-> w] :
        vs \in Lists(1..3, 0, MaxValues), w \in (-1)..(MaxValues + 1)}

VolumeNodesCalls ==
    {[fn |-> "volume_nodes_proxy", candles |-> List(SmallCandles(f, "strict")), bins |-> b] :
        f \in UNION {[1..n -> 1..Len(Shapes)] : n \in 1..MaxValues}, b \in {1, 2, 3, 60}}

\* StructureAgent.run on short series, and on series that open with a swing
\* high, a dip and a lower swing high
StructureHead == <<1, 1, 2, 1, 1>>

StructureCalls ==
    {[fn |-> "StructureAgent.run",
      ctx |-> [symbol |-> "XAGUSD", timeframe |-> "4H",
               candles |-> List(SmallCandles(head \o List(f), "strict")),
               params |-> SmallParams, traces |-> EmptyDict]] :
        head \in {<<>>, StructureHead},
        f \in UNION {[1..n -> 1..Len(Shapes)] : n \in 1..MaxValues}}

\* resolve_layers on a rising series of n bars (bar i trades at i + 1)
MaxBars == 8

RampCandles(n) == List([x \in 1..n |-> Candle(x - 1, x, x, x, x, 1)])

ResolveTraces(b, hvn, mask, dist_flags, abs_flags) ==
    Put(Put(Put(Put(Put(EmptyDict,
        S_structure, [base_end_idx |-> b]),
        S_volume, [hvn |-> hvn]),
        S_cost_basis, EmptyDict),
        S_regime, [compression_mask |-> mask]),
        S_accum_dist, [distribution_flags |-> dist_flags, absorption_flags |-> abs_flags])

ResolveCall(n, b, hvn, mask, dist_flags, abs_flags) ==
    [fn |-> "resolve_layers",
     ctx |-> [symbol |-> "XAGUSD", timeframe |-> "4H", candles |-> RampCandles(n),
              params |-> EmptyDict,
              traces |-> ResolveTraces(b, hvn, mask, dist_flags, abs_flags)]]

AllFalse(n) == List([x \in 1..n |-> FALSE])

\* every compression mask over MaxBars bars, no flags, no HVN
WindowCalls ==
    {ResolveCall(MaxBars, b, <<>>, List(m), AllFalse(MaxBars), AllFalse(MaxBars)) :
        b \in 0..(MaxBars - 1), m \in [1..MaxBars -> BOOLEAN]}

\* distribution on the first kd bars and absorption on ka bars from bar off,
\* over 2 * MaxBars bars
StateCalls ==
    LET n == 2 * MaxBars
    IN  {ResolveCall(n, b, <<>>, AllFalse(n),
                     List([x \in 1..n |-> x - 1 < kd]),
                     List([x \in 1..n |-> off <= x - 1 /\ x - 1 < off + ka])) :
            b \in 0..(n - 1), kd \in 0..n, ka \in 0..3, off \in {0, MaxBars}}

\* HVN buckets <<low, high, volume>> below, inside and above the series
HvnBuckets ==
    {<<QInt(lo), QInt(lo + 1), v>> : lo \in {1, 4, 7, 20}, v \in 1..2}

HvnCalls ==
    {ResolveCall(MaxBars, b, hvn, AllFalse(MaxBars), AllFalse(MaxBars), AllFalse(MaxBars)) :
        b \in 0..(MaxBars - 1), hvn \in Lists(HvnBuckets, 0, 2)}

ResolveCalls == WindowCalls \cup StateCalls \cup HvnCalls

\* AccumDistAgent.run on short series with gaps between bars; <<l, h, c, v>>
AccumShapes ==
    << <<1, 1, 1, 1>>, <<3, 3, 3, 2>>, <<3, 4, 4, 3>>,
       <<1, 3, 2, 1>>, <<4, 5, 5, 2>>, <<1, 2, 1, 3>> >>

AccumCandles(f) ==
    [x \in DOMAIN f |->
        Candle(x - 1, AccumShapes[f[x]][1], AccumShapes[f[x]][2], AccumShapes[f[x]][1],
               AccumShapes[f[x]][3], AccumShapes[f[x]][4])]

AccumDistCalls ==
    {[fn |-> "AccumDistAgent.run",
      ctx |-> [symbol |-> "XAGUSD", timeframe |-> "4H",
               candles |-> List(AccumCandles(f)),
               params |-> [range_window |-> rw, vol_sma_window |-> vw],
               traces |-> EmptyDict]] :
        f \in UNION {[1..n -> 1..Len(AccumShapes)] : n \in 1..(MaxValues - 1)},
        rw \in 1..2, vw \in 2..3}

InitCalls ==
    /\ routes = <<>>
    /\ \E call \in FindSwingsCalls \cup SmaCalls \cup VolumeNodesCalls \cup StructureCalls
                     \cup ResolveCalls \cup AccumDistCalls :
          args = [r \in Runs |-> IF r = 1 THEN call ELSE None]
    /\ pc = [r \in Runs |-> IF r = 1 THEN "call" ELSE "idle"]
    /\ ctx = [r \in Runs |-> None]
    /\ dicts = [r \in Runs |-> EmptyDict]
    /\ stage = [r \in Runs |-> 0]
    /\ pending = [r \in Runs |-> None]
    /\ result = [r \in Runs |-> None]
    /\ log = [r \in Runs |-> <<>>]
    /\ runtime = NewRuntime
    /\ cli = NotStarted

\* the call returns res, or raises it
Return(res) ==
    /\ pc' = [pc EXCEPT ![1] = "returned"]
    /\ result' = [result EXCEPT ![1] = res]
    /\ UNCHANGED <<routes, args, ctx, dicts, stage, pending, log, runtime, cli>>

CallFindSwings ==
    /\ pc[1] = "call" /\ args[1].fn = "find_swings"
    /\ Return(Ok(find_swings(args[1].candles, args[1].left, args[1].right)))

CallSma ==
    /\ pc[1] = "call" /\ args[1].fn = "sma"
    /\ Return(sma(args[1].values, args[1].window))

CallVolumeNodes ==
    /\ pc[1] = "call" /\ args[1].fn = "volume_nodes_proxy"
    /\ Return(Ok(volume_nodes_proxy(args[1].candles, args[1].bins)))

CallStructure ==
    /\ pc[1] = "call" /\ args[1].fn = "StructureAgent.run"
    /\ Return(StructureAgent_run(args[1].ctx))

CallResolveLayers ==
    /\ pc[1] = "call" /\ args[1].fn = "resolve_layers"
    /\ Return(resolve_layers(args[1].ctx))

CallAccumDist ==
    /\ pc[1] = "call" /\ args[1].fn = "AccumDistAgent.run"
    /\ Return(AccumDistAgent_run(args[1].ctx))

NextCalls ==
    \/ CallFindSwings \/ CallSma \/ CallVolumeNodes \/ CallStructure
    \/ CallResolveLayers \/ CallAccumDist

SpecCalls == InitCalls /\ [][NextCalls]_vars

\* the call of fn has returned
Returned(fn) == pc[1] = "returned" /\ args[1].fn = fn

\* the highs of the call's candles
HighsOf == List([x \in 1..Len(args[1].candles) |-> args[1].candles[x].h])

\* hs rises strictly up to position m and falls strictly after it, with
\* bars on both sides of m (m is 1-based)
UnimodalAt(hs, m) ==
    /\ 1 < m /\ m < Len(hs)
    /\ \A i \in 1..(m - 1) : hs[i] < hs[i + 1]
    /\ \A i \in m..(Len(hs) - 1) : hs[i] > hs[i + 1]

\* C13, as stated: on strictly unimodal highs, find_swings with
\* left = right = 2 reports exactly one swing high, the index of the
\* maximum, wherever the maximum sits.
C13_UnimodalOneHigh ==
    Returned("find_swings") /\ args[1].left = 2 /\ args[1].right = 2 =>
        \A m \in 1..Len(HighsOf) :
            UnimodalAt(HighsOf, m) => result[1].val.highs = <<m - 1>>

\* C13, amended: on strictly unimodal highs, find_swings with
\* left = right = 2 reports the index of the maximum as the only swing high
\* when the maximum has two bars on each side, and no swing high otherwise.
C13_UnimodalAmended ==
    Returned("find_swings") /\ args[1].left = 2 /\ args[1].right = 2 =>
        \A m \in 1..Len(HighsOf) :
            UnimodalAt(HighsOf, m) =>
                result[1].val.highs =
                    (IF 2 <= m - 1 /\ m - 1 <= Len(HighsOf) - 3 THEN <<m - 1>> ELSE <<>>)

\* six unimodal highs with the maximum at index 3, reported alone
C13_Witness ==
    /\ Returned("find_swings") /\ args[1].left = 2 /\ args[1].right = 2
    /\ Len(HighsOf) = 6 /\ UnimodalAt(HighsOf, 4)
    /\ result[1].val.highs = <<3>>

\* values[a] + ... + values[b], Python indices, added one by one
RECURSIVE Total(_, _, _)
Total(values, a, b) == IF b < a THEN 0 ELSE Total(values, a, b - 1) + At(values, b)

VolumeWhere(cs, inside(_)) ==
    LET vs == List([i \in 1..Len(cs) |-> IF inside(Typical(cs[i])) THEN cs[i].v ELSE 0])
    IN  Total(vs, 0, Len(vs) - 1)

\* C15: for a non-empty candle list and bins >= 1, volume_nodes_proxy puts
\* the whole volume of each candle in one bucket: the bucket volumes add up
\* to the total volume, there are bins contiguous buckets of equal width
\* from the lowest to the highest typical price, and one bucket with the
\* total volume when all typical prices are equal.
C15_VolumeNodes ==
    Returned("volume_nodes_proxy") =>
        LET cs == args[1].candles
            bins == args[1].bins
            nodes == result[1].val
            lo == CHOOSE p \in {Typical(cs[i]) : i \in 1..Len(cs)} :
                      \A i \in 1..Len(cs) : QLe(p, Typical(cs[i]))
            hi == CHOOSE p \in {Typical(cs[i]) : i \in 1..Len(cs)} :
                      \A i \in 1..Len(cs) : QGe(p, Typical(cs[i]))
            total == VolumeWhere(cs, LAMBDA p : TRUE)
        IN  IF lo = hi
            THEN nodes = << <<lo, hi, total>> >>
            ELSE /\ Len(nodes) = bins
                 /\ nodes[1][1] = lo /\ nodes[bins][2] = hi
                 /\ \A b \in 1..(bins - 1) : nodes[b][2] = nodes[b + 1][1]
                 /\ \A b \in 1..bins :
                       QSub(nodes[b][2], nodes[b][1]) = QMul(QSub(hi, lo), Q(1, bins))
                 /\ Total(List([b \in 1..bins |-> nodes[b][3]]), 0, bins - 1) = total
                 /\ \A b \in 1..bins :
                       /\ nodes[b][3] >= VolumeWhere(cs, LAMBDA p : QLt(nodes[b][1], p)
                                                                    /\ QLt(p, nodes[b][2]))
                       /\ nodes[b][3] <= VolumeWhere(cs, LAMBDA p : QLe(nodes[b][1], p)
                                                                    /\ QLe(p, nodes[b][2]))

\* three buckets returned, each holding some volume, and the degenerate case
C15_Witness ==
    /\ Returned("volume_nodes_proxy")
    /\ args[1].bins = 3 /\ Len(result[1].val) = 3
    /\ \A b \in 1..3 : result[1].val[b][3] > 0

\* ------------------------------------------------------------------------
\* Zones and the indices the resolver reads
\* ------------------------------------------------------------------------
\* resolve_layers has been called in call r on a Structure trace with a base_end_idx
Resolved(r) ==
    /\ Events(r, {"resolve"}) # {}
    /\ "base_end_idx" \in DOMAIN dicts[ctx[r].traces][S_structure]

ZonesOf(r) == Zones(Len(ctx[r].candles), dicts[ctx[r].traces][S_structure].base_end_idx)

\* C16: whatever base_end_idx the Structure trace holds (built in or from an
\* adapter, below 0 or at least n included), the five zones of
\* resolve_layers lie in [0, n-1] and resolve_layers does not fail with an
\* out-of-range access.
C16_ZonesClamped ==
    \A r \in Runs :
        ctx[r] # None /\ Resolved(r) =>
            /\ \A x \in 1..5 : \A k \in 1..2 :
                  0 <= ZonesOf(r)[x][k] /\ ZonesOf(r)[x][k] <= Len(ctx[r].candles) - 1
            /\ result[r] # Err("IndexError")

\* resolve_layers failed with IndexError on the base_end_idx = n of a Structure adapter
C16_Witness ==
    /\ ctx[1] # None /\ Resolved(1)
    /\ dicts[ctx[1].traces][S_structure].base_end_idx = Len(ctx[1].candles)
    /\ result[1] = Err("IndexError")

\* ------------------------------------------------------------------------
\* The base end of the Structure stage
\* ------------------------------------------------------------------------
\* the breakouts of swing low li in candles cs with swing highs highs: the
\* bars after hi0, the earliest swing high after li, that close above its high
BreakoutsOf(cs, highs, li) ==
    LET after == {x \in 1..Len(highs) : highs[x] > li}
    IN  IF after = {} THEN {}
        ELSE LET hi0 == highs[CHOOSE x \in after : \A y \in after : x <= y]
             IN  {j \in (hi0 + 1)..(Len(cs) - 1) : At(cs, j).c > At(cs, hi0).h}

CallCandles == args[1].ctx.candles
CallTraces == args[1].ctx.traces
CallZones == Zones(Len(CallCandles), CallTraces[S_structure].base_end_idx)

\* the one window note in the evidence of layer lb
WindowNote(lb) ==
    LET w == SelectSeq(lb.evidence,
                       LAMBDA e : e[1] \in {"fallback window idx", "compression window idx"})
    IN  IF Len(w) = 1 THEN w[1] ELSE None

\* bars a..e are a run of compressed bars of zone z that cannot be extended
\* inside the zone
RunIn(mask, z, a, e) ==
    /\ z[1] <= a /\ a <= e /\ e <= z[2]
    /\ \A i \in a..e : At(mask, i)
    /\ a = z[1] \/ ~At(mask, a - 1)
    /\ e = z[2] \/ ~At(mask, e + 1)

Flagged(flags, z) == Cardinality({i \in z[1]..z[2] : At(flags, i)})

\* C19: with d and a the fractions of a zone's bars that carry a
\* distribution flag and an absorption flag, the layer is "distributing"
\* iff d > 0.10 and d > a, "accumulating" iff a > 0.10 and a > d, and
\* "holding" otherwise; no layer is "broken" or "unknown".
C19_LayerState ==
    Returned("resolve_layers") /\ result[1].ok =>
        \A x \in 1..5 :
            LET z == CallZones[x]
                bars == z[2] - z[1] + 1
                d == Flagged(CallTraces[S_accum_dist].distribution_flags, z)
                a == Flagged(CallTraces[S_accum_dist].absorption_flags, z)
                state == result[1].val[x].state
            IN  /\ state \in {"distributing", "accumulating", "holding"}
                /\ state = "distributing" <=> (10 * d > bars /\ d > a)
                /\ state = "accumulating" <=> (10 * a > bars /\ a > d)

\* a base zone of ten bars with one distribution flag and no absorption flag
\* (a distribution rate of exactly 0.10) is holding
C19_Witness ==
    /\ Returned("resolve_layers") /\ result[1].ok
    /\ CallZones[1] = <<0, 9>>
    /\ Flagged(CallTraces[S_accum_dist].distribution_flags, CallZones[1]) = 1
    /\ Flagged(CallTraces[S_accum_dist].absorption_flags, CallZones[1]) = 0
    /\ result[1].val[1].state = "holding"

\* ------------------------------------------------------------------------
\* HVN refinement
\* ------------------------------------------------------------------------
\* the layers of the call before refinement: the same call with no HVN
Unrefined ==
    resolve_layers_value(
        [args[1].ctx EXCEPT !.traces = Put(CallTraces, S_volume, [hvn |-> <<>>])])

\* the price range of bucket nd meets the band of layer lb
Meets(nd, lb) ==
    /\ ~IsNaN(lb.price_low) /\ ~IsNaN(lb.price_high)
    /\ QGe(nd[2], lb.price_low) /\ QLe(nd[1], lb.price_high)

\* layer lb is layer lb0 refined with the buckets of hvn, the buckets in
\* over being those that count as overlapping lb0
RefinedWith(hvn, over, lb0, lb) ==
    /\ lb.price_low = lb0.price_low /\ lb.price_high = lb0.price_high
    /\ lb.entry_start_ts = lb0.entry_start_ts /\ lb.entry_end_ts = lb0.entry_end_ts
    /\ lb.state = lb0.state /\ lb.confidence = lb0.confidence
    /\ IF over = {} THEN lb = lb0
       ELSE \E k \in over :
               LET mid == QMul(QAdd(hvn[k][1], hvn[k][2]), Q(1, 2))
               IN  /\ \A j \in over : hvn[j][3] <= hvn[k][3]
                   /\ lb.cost_basis =
                         (IF lb0.cost_basis = None THEN None
                          ELSE QAdd(QMul(Q(7, 10), lb0.cost_basis), QMul(Q(3, 10), mid)))
                   /\ lb.evidence = Append(lb0.evidence, <<"hvn_hint", mid, hvn[k][3]>>)

\* C20: a layer whose band some bucket overlaps gets the cost basis
\* 0.7*cost_basis + 0.3*midpoint of the highest-volume such bucket and one
\* more evidence note; a layer that no bucket overlaps, a layer with the NaN
\* band of an empty zone included, is left as it was; price_low, price_high,
\* the entry window, the state and the confidence of every layer are kept.
C20_HvnRefinement ==
    Returned("resolve_layers") /\ result[1].ok =>
        LET hvn == CallTraces[S_volume].hvn
        IN  \A x \in 1..5 :
                RefinedWith(hvn, {k \in 1..Len(hvn) : Meets(hvn[k], Unrefined[x])},
                            Unrefined[x], result[1].val[x])

\* C20, what the code does instead: the same, except that every bucket
\* counts as overlapping a layer with the NaN band, so that such a layer
\* gets the evidence note of the highest-volume bucket (its cost basis is
\* None and stays None).
C20_HvnRefinementNaN ==
    Returned("resolve_layers") /\ result[1].ok =>
        LET hvn == CallTraces[S_volume].hvn
        IN  \A x \in 1..5 :
                RefinedWith(hvn,
                            {k \in 1..Len(hvn) : \/ IsNaN(Unrefined[x].price_low)
                                                 \/ Meets(hvn[k], Unrefined[x])},
                            Unrefined[x], result[1].val[x])

\* the early zone is empty, its layer has the NaN band, and the note of a
\* bucket at 20..21, above every price of the series, has been appended to it
C20_Witness ==
    /\ Returned("resolve_layers") /\ result[1].ok
    /\ CallTraces[S_volume].hvn = << <<QInt(20), QInt(21), 1>> >>
    /\ IsNaN(result[1].val[2].price_low)
    /\ result[1].val[2].evidence =
          Append(Unrefined[2].evidence, <<"hvn_hint", Q(41, 2), 1>>)
    /\ \A x \in {1, 3, 4, 5} : result[1].val[x] = Unrefined[x]

\* ------------------------------------------------------------------------
\* The flags of the AccumDist stage
\* ------------------------------------------------------------------------
\* the mean of xs[i-window+1..i] (Python indices), or None before window-1
MeanAt(xs, window, i) ==
    IF i < window - 1 THEN None ELSE Q(Total(xs, i - window + 1, i), window)

\* the flags that the rule with bar sizes rs gives at bar i of candles cs:
\* <<distribution, absorption>>
FlagsBy(cs, rs, params, i) ==
    LET vs == List([x \in 1..Len(cs) |-> cs[x].v])
        r_avg == MeanAt(rs, params.range_window, i)
        v_avg == MeanAt(vs, params.vol_sma_window, i)
        quiet == /\ r_avg # None /\ v_avg # None /\ i > 0
                 /\ At(vs, i) * v_avg[2] > v_avg[1]
                 /\ At(rs, i) * r_avg[2] < r_avg[1]
    IN  <<quiet /\ At(cs, i).c > At(cs, i - 1).c, quiet /\ At(cs, i).c < At(cs, i - 1).c>>

\* max(h-l, |h-prevClose|, |l-prevClose|) of every bar, the first bar's
\* previous close being its own close
TrueRanges(cs) ==
    List([x \in 1..Len(cs) |->
            LET pc0 == IF x = 1 THEN cs[1].c ELSE cs[x - 1].c
                up == IF cs[x].h >= pc0 THEN cs[x].h - pc0 ELSE pc0 - cs[x].h
                dn == IF cs[x].l >= pc0 THEN cs[x].l - pc0 ELSE pc0 - cs[x].l
            IN  Max2(cs[x].h - cs[x].l, Max2(up, dn))])

\* h - l of every bar
PlainRanges(cs) == List([x \in 1..Len(cs) |-> cs[x].h - cs[x].l])

\* C21: AccumDistAgent flags bar i as distribution exactly when both moving
\* averages are defined at i, i > 0, the close is above the previous close,
\* the volume exceeds its moving average and the true range of the bar is
\* below the moving average of true range; absorption is the same with the
\* close below the previous close.
C21_TrueRangeFlags ==
    Returned("AccumDistAgent.run") /\ result[1].ok =>
        LET cs == args[1].ctx.candles
            out == result[1].val.output
        IN  \A i \in 0..(Len(cs) - 1) :
                <<At(out.distribution_flags, i), At(out.absorption_flags, i)>>
                    = FlagsBy(cs, TrueRanges(cs), args[1].ctx.params, i)

\* C21, what the code does instead: the same rule with the bar's range
\* h - l, and the moving average of h - l, in place of the true range.
C21_PlainRangeFlags ==
    Returned("AccumDistAgent.run") /\ result[1].ok =>
        LET cs == args[1].ctx.candles
            out == result[1].val.output
        IN  /\ Len(out.distribution_flags) = Len(cs)
            /\ Len(out.absorption_flags) = Len(cs)
            /\ \A i \in 0..(Len(cs) - 1) :
                  <<At(out.distribution_flags, i), At(out.absorption_flags, i)>>
                      = FlagsBy(cs, PlainRanges(cs), args[1].ctx.params, i)

\* a bar that gaps up after a wide bar is flagged as distribution although
\* its true range is above the average true range
C21_Witness ==
    /\ Returned("AccumDistAgent.run") /\ result[1].ok
    /\ LET cs == args[1].ctx.candles
           out == result[1].val.output
       IN  \E i \in 1..(Len(cs) - 1) :
              /\ At(out.distribution_flags, i)
              /\ ~FlagsBy(cs, TrueRanges(cs), args[1].ctx.params, i)[1]

\* ------------------------------------------------------------------------
\* The Verifier checks and the confidence of a layer
\* ------------------------------------------------------------------------
\* the traces of call r
TracesOf(r) == dicts[ctx[r].traces]

\* the number of Verifier checks the traces t satisfy
ChecksOk(t) ==
    (IF S_structure \in DOMAIN t /\ "base_end_idx" \in DOMAIN t[S_structure] THEN 1 ELSE 0)
    + (IF S_volume \in DOMAIN t /\ "hvn" \in DOMAIN t[S_volume] /\ t[S_volume].hvn # <<>>
       THEN 1 ELSE 0)
    + (IF S_cost_basis \in DOMAIN t /\ "anchors" \in DOMAIN t[S_cost_basis]
          /\ t[S_cost_basis].anchors # <<>>
       THEN 1 ELSE 0)

\* the built-in Verifier stage of call r has run and its trace is stored
VerifierBuiltin(r) ==
    /\ \E x \in 1..Len(log[r]) : log[r][x].ev = "builtin" /\ log[r][x].k = VerifierAgentName
    /\ \E x \in 1..Len(log[r]) : log[r][x].ev = "store" /\ log[r][x].k = VerifierAgentName

\* the note of layer lb that starts with tag
NoteOf(lb, tag) ==
    LET e == SelectSeq(lb.evidence, LAMBDA en : en[1] = tag) IN e[1]

\* x held between lo and hi
Between(x, lo, hi) == IF QLt(x, lo) THEN lo ELSE IF QGt(x, hi) THEN hi ELSE x

\* the window confidence of layer lb over zone z, from its window note
WindowConf(lb, z) ==
    IF WindowNote(lb)[1] = "fallback window idx" THEN Q(35, 100)
    ELSE Between(Q(WindowNote(lb)[4], Max2(10, z[2] - z[1] + 1)), Q(35, 100), Q(85, 100))

\* the state confidence of layer lb, from its state and its rate notes
StateConf(lb) ==
    CASE lb.state = "distributing" ->
             Between(QAdd(Q(55, 100), NoteOf(lb, "dist_rate")[2]), Q(55, 100), Q(85, 100))
      [] lb.state = "accumulating" ->
             Between(QAdd(Q(55, 100), NoteOf(lb, "abs_rate")[2]), Q(55, 100), Q(85, 100))
      [] OTHER -> Q(55, 100)

\* C22: the confidence of the built-in Verifier stage is the number of
\* satisfied checks (base_end_idx in the structure trace, a non-empty hvn
\* list in the volume trace, non-empty anchors in the cost_basis trace)
\* over 3, and the confidence of every layer is
\* clamp(0.45*window + 0.35*state + 0.20*v, 0, 1) with v the confidence of
\* the Verifier stage of the same run.
C22_VerifierBlend ==
    \A r \in Runs :
        /\ VerifierBuiltin(r) =>
              /\ TracesOf(r)[S_verifier]["_confidence"] = Q(ChecksOk(TracesOf(r)), 3)
              /\ TracesOf(r)[S_verifier].checks_ok = ChecksOk(TracesOf(r))
        /\ Done(r) =>
              \A x \in 1..5 :
                  LET lb == Layers(r)[x]
                      v == TracesOf(r)[S_verifier]["_confidence"]
                  IN  lb.confidence =
                          Between(QAdd(QAdd(QMul(Q(45, 100), WindowConf(lb, ZonesOf(r)[x])),
                                            QMul(Q(35, 100), StateConf(lb))),
                                       QMul(Q(20, 100), v)),
                                  QInt(0), QInt(1))

\* a run whose Volume adapter gave no hvn list: the built-in Verifier found
\* two checks of three and the layers are blended with 2/3
C22_Witness ==
    /\ Done(1) /\ VerifierBuiltin(1)
    /\ TracesOf(1)[S_verifier]["_confidence"] = Q(2, 3)
    /\ NoteOf(Layers(1)[1], "verifier")[2] = Q(2, 3)

\* ------------------------------------------------------------------------
\* Swings
\* ------------------------------------------------------------------------
\* the elements of the list xs
Elements(xs) == {xs[x] : x \in 1..Len(xs)}

\* the list xs is strictly ascending
Ascending(xs) == \A x, y \in 1..Len(xs) : x < y => xs[x] < xs[y]

\* C24: find_swings reports index i as a swing high iff left <= i < n-right
\* and high[i] is the maximum of the highs over [i-left, i+right], ties
\* included, and as a swing low likewise with the minimum of the lows;
\* indices nearer than left to the start or right to the end are never
\* reported, and both lists are strictly ascending.
C24_Swings ==
    Returned("find_swings") =>
        LET cs == args[1].candles
            n == Len(cs)
            left == args[1].left
            right == args[1].right
            inner(i) == left <= i /\ i < n - right
        IN  /\ \A i \in 0..(n - 1) :
                  /\ i \in Elements(result[1].val.highs) <=>
                        (inner(i) /\ \A j \in (i - left)..(i + right) : At(cs, j).h <= At(cs, i).h)
                  /\ i \in Elements(result[1].val.lows) <=>
                        (inner(i) /\ \A j \in (i - left)..(i + right) : At(cs, j).l >= At(cs, i).l)
            /\ Elements(result[1].val.highs) \cup Elements(result[1].val.lows) \subseteq 0..(n - 1)
            /\ Ascending(result[1].val.highs) /\ Ascending(result[1].val.lows)

\* with left = right = 1, two neighbouring bars share the highest high of
\* their windows and both are swing highs, and the first bar is not
C24_Witness ==
    /\ Returned("find_swings")
    /\ args[1].left = 1 /\ args[1].right = 1
    /\ Len(args[1].candles) = 4
    /\ \E i \in 1..1 :
          /\ At(args[1].candles, i).h = At(args[1].candles, i + 1).h
          /\ {i, i + 1} \subseteq Elements(result[1].val.highs)
    /\ 0 \notin Elements(result[1].val.highs)

\* ------------------------------------------------------------------------
\* The band of a layer
\* ------------------------------------------------------------------------
\* the candles of call r whose index lies in zone z
CandlesIn(r, z) ==
    {At(ctx[r].candles, i) : i \in {j \in z[1]..z[2] : 0 <= j /\ j < Len(ctx[r].candles)}}

\* the widen factors of layers 1..5, in hundredths
WidenPct == <<5, 4, 3, 2, 1>>

\* C23: for every non-empty zone, price_low = min(low) - widen*(max(high) -
\* min(low)) and price_high = max(high) + widen*(max(high) - min(low)) with
\* widen 0.05, 0.04, 0.03, 0.02, 0.01 for layers 1..5, and the band contains
\* every candle of the zone.
C23_BandContains ==
    \A r \in Runs :
        Done(r) =>
            \A x \in 1..5 :
                LET cds == CandlesIn(r, ZonesOf(r)[x])
                    lb == Layers(r)[x]
                IN  cds # {} =>
                        LET lo == CHOOSE p \in {cd.l : cd \in cds} : \A cd \in cds : p <= cd.l
                            hi == CHOOSE p \in {cd.h : cd \in cds} : \A cd \in cds : p >= cd.h
                        IN  /\ lb.price_low = Q(100 * lo - WidenPct[x] * (hi - lo), 100)
                            /\ lb.price_high = Q(100 * hi + WidenPct[x] * (hi - lo), 100)
                            /\ \A cd \in cds : /\ QLe(lb.price_low, QInt(cd.l))
                                               /\ QGe(lb.price_high, QInt(cd.h))

\* a finished run whose base zone spans prices 1..3: the band of layer 1 is
\* 0.9..3.1, and a later layer over the same prices is widened less
C23_Witness ==
    /\ Done(1)
    /\ Layers(1)[1].price_low = Q(9, 10) /\ Layers(1)[1].price_high = Q(31, 10)
    /\ \E x \in 2..5 :
          /\ ~IsNaN(Layers(1)[x].price_low)
          /\ QGt(Layers(1)[x].price_low, Q(9, 10)) /\ QLt(Layers(1)[x].price_low, QInt(1))

\* ------------------------------------------------------------------------
\* An engine with no adapter: analyze with every stage built in, over the
\* run parameters that size the volume histogram and the HVN list
\* ------------------------------------------------------------------------
BuiltinParams ==
    {None, [hvn_topk |-> 0], [hvn_topk |-> 1], [hvn_topk |-> 1, vap_bins |-> 3],
     [hvn_topk |-> 0, vap_bins |-> 2]}

BuiltinArgs ==
    {[symbol |-> "XAGUSD", timeframe |-> "4H", candles |-> cs, params |-> ps] :
        cs \in {List(CandlesA(MinCandles)), List(CandlesB(MinCandles + 1)), FlatCandles},
        ps \in BuiltinParams}

NextBuiltin ==
    \/ \E a \in BuiltinArgs : Analyze(1, a)
    \/ RunBuiltin(1)
    \/ Resolve(1)

SpecBuiltin == Init /\ [][NextBuiltin]_vars

\* the Verifier trace of call r is stored
VerifierStored(r) ==
    \E x \in 1..Len(log[r]) : log[r][x].ev = "store" /\ log[r][x].k = VerifierAgentName

\* C25: in a run of analyze on at least 100 candles with all six stages
\* built in and hvn_topk >= 1, the three Verifier checks are satisfied, the
\* Verifier confidence is 1, and the verifier term adds 0.20 to the
\* confidence of every layer.
C25_VerifierAlwaysOne ==
    \A r \in Runs :
        ctx[r] # None /\ BuiltinOnly(r) /\ Get(ctx[r].params, "hvn_topk", 6) >= 1 =>
            /\ VerifierStored(r) =>
                  /\ TracesOf(r)[S_verifier].checks_ok = 3
                  /\ TracesOf(r)[S_verifier]["_confidence"] = QInt(1)
                  /\ "base_end_idx" \in DOMAIN TracesOf(r)[S_structure]
                  /\ TracesOf(r)[S_volume].hvn # <<>>
                  /\ TracesOf(r)[S_cost_basis].anchors # <<>>
            /\ Done(r) =>
                  \A x \in 1..5 :
                      LET lb == Layers(r)[x]
                      IN  lb.confidence =
                              Between(QAdd(QAdd(QMul(Q(45, 100), WindowConf(lb, ZonesOf(r)[x])),
                                                QMul(Q(35, 100), StateConf(lb))),
                                           Q(20, 100)),
                                      QInt(0), QInt(1))

\* a finished run with hvn_topk = 1: one HVN bucket and a Verifier confidence of 1
C25_Witness ==
    /\ Done(1) /\ BuiltinOnly(1)
    /\ Get(ctx[1].params, "hvn_topk", 6) = 1
    /\ Len(TracesOf(1)[S_volume].hvn) = 1
    /\ TracesOf(1)[S_verifier]["_confidence"] = QInt(1)

\* ------------------------------------------------------------------------
\* HumanoidGenesisRuntime: run_once called up to MaxCalls times, one call at
\* a time, while emergency_stop may be set or cleared from outside (the
\* attribute is public, and the estop subscription is to write it) between
\* any two steps.  The trace lists what was done, with the value of
\* emergency_stop at that moment.
\* ------------------------------------------------------------------------
MaxCalls == 2

Step(ev) == [ev |-> ev, stop |-> runtime.emergency_stop, call |-> runtime.calls]

\* a check that never aborts
EStopIgnored(rt) == FALSE

\* `if self.emergency_stop:` at the top of run_once
EStopCheck(rt) == rt.emergency_stop

\* run_once is entered: the check, and the abort when emergency_stop is set
RunOnce ==
    /\ runtime.pc = "idle" /\ runtime.calls < MaxCalls
    /\ LET rt == [runtime EXCEPT !.calls = @ + 1]
       IN  runtime' =
               IF EStopCheck(rt)
               THEN [rt EXCEPT !.trace = Append(@, [ev |-> "abort", stop |-> rt.emergency_stop,
                                                    call |-> rt.calls])]
               ELSE [rt EXCEPT !.pc = "perceive",
                               !.trace = Append(@, [ev |-> "enter", stop |-> rt.emergency_stop,
                                                    call |-> rt.calls])]
    /\ UNCHANGED <<routes, pc, args, ctx, dicts, stage, pending, result, log, cli>>

\* world = self.perceive()
Perceive ==
    /\ runtime.pc = "perceive"
    /\ runtime' = [runtime EXCEPT !.pc = "think", !.trace = Append(@, Step("perceive"))]
    /\ UNCHANGED <<routes, pc, args, ctx, dicts, stage, pending, result, log, cli>>

\* out = self.think(user_goal, world) returns a plan
Think ==
    /\ runtime.pc = "think"
    /\ runtime' = [runtime EXCEPT !.pc = "act", !.trace = Append(@, Step("think"))]
    /\ UNCHANGED <<routes, pc, args, ctx, dicts, stage, pending, result, log, cli>>

\* a call of the LLM inside think raises: run_once ends with the exception
ThinkRaises ==
    /\ runtime.pc = "think"
    /\ runtime' = [runtime EXCEPT !.pc = "idle", !.trace = Append(@, Step("think raised"))]
    /\ UNCHANGED <<routes, pc, args, ctx, dicts, stage, pending, result, log, cli>>

\* self.act(out["plan"]), then run_once returns
Act ==
    /\ runtime.pc = "act"
    /\ runtime' = [runtime EXCEPT !.pc = "idle", !.trace = Append(@, Step("act"))]
    /\ UNCHANGED <<routes, pc, args, ctx, dicts, stage, pending, result, log, cli>>

\* emergency_stop is written from outside
SetEmergencyStop(v) ==
    /\ runtime.emergency_stop # v
    /\ runtime' = [runtime EXCEPT !.emergency_stop = v]
    /\ UNCHANGED <<routes, pc, args, ctx, dicts, stage, pending, result, log, cli>>

NextRuntime ==
    \/ RunOnce
    \/ Perceive
    \/ Think
    \/ ThinkRaises
    \/ Act
    \/ \E v \in BOOLEAN : SetEmergencyStop(v)

SpecRuntime == Init /\ [][NextRuntime]_vars

\* what call k of run_once has done so far, in order
StepsOf(k) ==
    LET mine == SelectSeq(runtime.trace, LAMBDA e : e.call = k)
    IN  List([x \in 1..Len(mine) |-> mine[x].ev])

\* call k of run_once has ended
Ended(k) == k < runtime.calls \/ (k = runtime.calls /\ runtime.pc = "idle")

MaxText == 4

Chars == {"{", "}", " ", "k", "x"}

\* the answers a provider may give
Texts == UNION {[1..n -> Chars] : n \in 0..MaxText}

\* the command lines, and whether the prompt files and the schema file exist
CliRuns ==
    {[provider |-> p, no_validate |-> nv, dry_run |-> dr, prompts_exist |-> pe,
      schema_exists |-> se] :
        p \in {"openai", "OpenAI ", "grok"}, nv \in BOOLEAN, dr \in BOOLEAN,
        pe \in BOOLEAN, se \in BOOLEAN}

\* str.strip() for the blank
RECURSIVE Strip(_)
Strip(t) ==
    IF t = <<>> THEN t
    ELSE IF t[1] = " " THEN Strip(Tail(t))
    ELSE IF t[Len(t)] = " " THEN Strip(SubSeq(t, 1, Len(t) - 1))
    ELSE t

\* extract_json: the stripped text when it starts with "{" and ends with
\* "}", else the match of \{.*\} (leftmost "{", last "}" after it)
extract_json(text) ==
    LET t == Strip(text)
        opens == {i \in 1..Len(t) : t[i] = "{"}
        closes == {i \in 1..Len(t) : t[i] = "}"}
    IN  IF t # <<>> /\ t[1] = "{" /\ t[Len(t)] = "}" THEN Ok(t)
        ELSE IF \E i \in opens : \E j \in closes : i < j
        THEN Ok(SubSeq(t, SetMin(opens), SetMax(closes)))
        ELSE Err("ValueError")

\* json.loads on these texts: an object with no member or with the member k
json_loads(s) ==
    LET body == SelectSeq(SubSeq(s, 2, Len(s) - 1), LAMBDA c : c # " ")
    IN  IF Len(s) >= 2 /\ s[1] = "{" /\ s[Len(s)] = "}" /\ body \in {<<>>, <<"k">>}
        THEN Ok(IF body = <<>> THEN {} ELSE {"k"})
        ELSE Err("JSONDecodeError")

\* get_provider: the name is stripped and lowered; four names are known
get_provider(name) ==
    IF name \in {"openai", "OpenAI "} THEN Ok("openai") ELSE Err("ProviderError")

\* validate_json_schema: the schema file is read, then the instance checked
validate_json_schema(instance, schema_exists) ==
    IF ~schema_exists THEN Err("FileNotFoundError")
    ELSE IF "k" \in instance THEN Ok(TRUE) ELSE Err("ValidationError")

\* a main flow that never validates
NeverValidate(run) == FALSE

\* `if not args.no_validate:`
ShouldValidate(run) == ~run.no_validate

InitCli ==
    /\ routes = <<>>
    /\ pc = [r \in Runs |-> "idle"]
    /\ args = [r \in Runs |-> None]
    /\ ctx = [r \in Runs |-> None]
    /\ dicts = [r \in Runs |-> EmptyDict]
    /\ stage = [r \in Runs |-> 0]
    /\ pending = [r \in Runs |-> None]
    /\ result = [r \in Runs |-> None]
    /\ log = [r \in Runs |-> <<>>]
    /\ runtime = NewRuntime
    /\ \E run \in CliRuns :
          cli = [pc |-> "main", run |-> run, text |-> <<>>, instance |-> {},
                 calls |-> 0, written |-> FALSE, exit |-> "", trace |-> <<>>]

\* the run ends: status "ok", or the exception that ends it
Exit(status, events) ==
    /\ cli' = [cli EXCEPT !.pc = "exited", !.exit = status, !.trace = @ \o events]
    /\ UNCHANGED <<routes, pc, args, ctx, dicts, stage, pending, result, log, runtime>>

Goto(label, events, text, instance) ==
    /\ cli' = [cli EXCEPT !.pc = label, !.trace = @ \o events, !.text = text,
                          !.instance = instance]
    /\ UNCHANGED <<routes, pc, args, ctx, dicts, stage, pending, result, log, runtime>>

\* main up to the provider call: the prompt files are read, --dry-run
\* prints and returns
ReadPrompts ==
    /\ cli.pc = "main"
    /\ IF ~cli.run.prompts_exist THEN Exit("FileNotFoundError", <<>>)
       ELSE IF cli.run.dry_run THEN Exit("ok", <<"dry run">>)
       ELSE Goto("provider", <<>>, cli.text, cli.instance)

\* get_provider(args.provider) and provider.chat(...): a response, or ProviderError
CallProvider ==
    /\ cli.pc = "provider"
    /\ IF ~get_provider(cli.run.provider).ok
       THEN Exit("SystemExit", <<"ProviderError">>)
       ELSE \/ /\ cli' = [cli EXCEPT !.pc = "exited", !.exit = "SystemExit",
                                     !.calls = @ + 1, !.trace = Append(@, "ProviderError")]
               /\ UNCHANGED <<routes, pc, args, ctx, dicts, stage, pending, result, log,
                              runtime>>
            \/ \E text \in Texts :
                  /\ cli' = [cli EXCEPT !.pc = "parse", !.calls = @ + 1, !.text = List(text),
                                        !.trace = Append(@, "response")]
                  /\ UNCHANGED <<routes, pc, args, ctx, dicts, stage, pending, result, log,
                                 runtime>>

\* extract_json(raw_text) and json.loads(json_text)
Parse ==
    /\ cli.pc = "parse"
    /\ LET json_text == extract_json(cli.text)
       IN  IF ~json_text.ok THEN Exit("ValueError", <<"no json">>)
           ELSE LET instance == json_loads(json_text.val)
                IN  IF ~instance.ok THEN Exit("SystemExit", <<"JSONDecodeError">>)
                    ELSE Goto("validate", <<"parsed">>, cli.text, instance.val)

\* the schema validation, unless --no-validate
Validate ==
    /\ cli.pc = "validate"
    /\ IF ~ShouldValidate(cli.run) THEN Goto("write", <<>>, cli.text, cli.instance)
       ELSE LET v == validate_json_schema(cli.instance, cli.run.schema_exists)
            IN  IF v.ok THEN Goto("write", <<"validated">>, cli.text, cli.instance)
                ELSE IF v.err = "ValidationError"
                THEN Exit("SystemExit", <<"SchemaValidationError">>)
                ELSE Exit(v.err, <<>>)

\* Path(args.out).write_text(...), the OK line, and main returns
WriteOut ==
    /\ cli.pc = "write"
    /\ cli' = [cli EXCEPT !.pc = "exited", !.exit = "ok", !.written = TRUE,
                          !.trace = Append(@, "write")]
    /\ UNCHANGED <<routes, pc, args, ctx, dicts, stage, pending, result, log, runtime>>

NextCli == ReadPrompts \/ CallProvider \/ Parse \/ Validate \/ WriteOut

SpecCli == InitCli /\ [][NextCli]_vars

\* the text between the first "{" and the last "}" of an answer, blanks
\* dropped; <<"x">> when there is no such pair
Braced(text) ==
    LET opens == {i \in 1..Len(text) : text[i] = "{"}
        closes == {i \in 1..Len(text) : text[i] = "}"}
    IN  IF opens = {} \/ closes = {} THEN <<"x">>
        ELSE IF SetMin(opens) > SetMax(closes) THEN <<"x">>
        ELSE SelectSeq(SubSeq(text, SetMin(opens) + 1, SetMax(closes) - 1),
                       LAMBDA c : c # " ")

ErrorEvents == {"ProviderError", "no json", "JSONDecodeError", "SchemaValidationError"}

\* C27: main writes the output file only after the provider has answered,
\* a JSON object has been extracted from the answer and parsed, and, unless
\* --no-validate is given, the schema validation has passed; a provider
\* error, a parse error or a validation error ends the run with an error
\* exit and no output file; with --dry-run the provider is never called
\* and nothing is written.
C27_WriteLast ==
    cli.pc # "none" =>
        /\ cli.written =>
              /\ ~cli.run.dry_run
              /\ cli.calls = 1
              /\ cli.trace = IF cli.run.no_validate
                             THEN <<"response", "parsed", "write">>
                             ELSE <<"response", "parsed", "validated", "write">>
              /\ Braced(cli.text) \in {<<>>, <<"k">>}
              /\ ~cli.run.no_validate =>
                    cli.run.schema_exists /\ Braced(cli.text) = <<"k">>
              /\ cli.exit = "ok"
        /\ (\E i \in 1..Len(cli.trace) : cli.trace[i] \in ErrorEvents) =>
              /\ cli.pc = "exited"
              /\ cli.exit \in {"SystemExit", "ValueError"}
              /\ ~cli.written
        /\ cli.exit \notin {"", "ok"} => ~cli.written
        /\ cli.run.dry_run => cli.calls = 0 /\ ~cli.written
        /\ cli.exit = "ok" /\ ~cli.run.dry_run => cli.written

\* a validated run has written the object found inside a longer answer
C27_Witness ==
    /\ cli.pc = "exited"
    /\ cli.written
    /\ ~cli.run.no_validate
    /\ cli.text = <<"x", "{", "k", "}">>
    /\ cli.trace = <<"response", "parsed", "validated", "write">>

====
